---------------------------- MODULE Spec2Model ----------------------------
(***************************************************************************)
(* rustnet connection tracking: the TCP state engine and the connection    *)
(* merge utilities of src/network/merge.rs, over the Connection record of  *)
(* src/network/types.rs, the NetworkMonitor of src/network/mod.rs with its *)
(* Linux socket-table sources (src/network/linux.rs), the CRYPTO frame     *)
(* reassembler of src/network/types.rs, and the connection list of the App *)
(* (src/app.rs).                                                            *)
(***************************************************************************)
EXTENDS Integers, Sequences, FiniteSets, TLC

VARIABLES
    \* --- TCP state engine harness (update_tcp_state applied to a flow) ---
    tcp_state,      \* TcpState of the flow under observation
    tcp_pos,        \* packets of HandshakeCloseScript matched so far, or OffScript
    tcp_visited,    \* states entered while following the script, in order
    tcp_last,       \* the last application of update_tcp_state, or NoCall
    \* --- one flow handled with the merge utilities (merge.rs) ---
    conn,           \* the flow's Connection (types.rs), or NoConn before creation
    clock,          \* the wall clock supplied as `now`
    panicked,       \* a call has panicked; nothing runs afterwards
    tally,          \* history: packets and bytes applied to the flow, by direction
    merge_last,     \* history: the last operation, and whether it carried DPI data
    \* --- NetworkMonitor (mod.rs) ---
    connections,        \* NetworkMonitor.connections: conn_key -> Connection
    filter_localhost,   \* NetworkMonitor.filter_localhost
    last_packet_check,  \* NetworkMonitor.last_packet_check (ms)
    capture,            \* frames the capture holds, not yet read
    now_ms,             \* the system time, in milliseconds
    returned,           \* the Vec returned by the last successful get_connections
    monitor_panicked,   \* get_connections has panicked (the monitor's mutex is poisoned)
    budget,             \* history: frames captured, calls made, time advances
    platform_last,      \* history: the last get_platform_connections that returned
    \* --- one CryptoFrameReassembler (types.rs) ---
    reasm,              \* the reassembler's fields
    reasm_panicked,     \* a call on the reassembler has panicked
    reasm_last,         \* history: the last call and its result, calls made
    \* --- App (app.rs) ---
    app_state,          \* the App's fields that on_tick and refresh maintain
    app_hist,           \* history: ticks made, the lists shown
    \* --- the threads that share the monitor (app.rs) ---
    monitor_mutex,      \* Arc<Mutex<NetworkMonitor>>: who holds the guard, poisoned
    bg_pc,              \* where the thread spawned by start_capture is
    ui_pc,              \* where the consumer (the thread that owns the App) is
    polls,              \* get_connections calls the monitor has completed
    connections_update, \* the list the background thread published (its poll)
    consumer_connections \* App.connections (the poll it comes from)

tcpVars == <<tcp_state, tcp_pos, tcp_visited, tcp_last>>
mergeVars == <<conn, clock, panicked, tally, merge_last>>
monVars == <<connections, filter_localhost, last_packet_check, capture, now_ms,
             returned, monitor_panicked, budget, platform_last>>

reVars == <<reasm, reasm_panicked, reasm_last>>
appVars == <<app_state, app_hist>>
thrVars == <<monitor_mutex, bg_pc, ui_pc, polls, connections_update,
             consumer_connections>>

vars == <<tcpVars, mergeVars, monVars, reVars, appVars, thrVars>>

-----------------------------------------------------------------------------
(* types.rs: TcpState, TcpFlags                                             *)

TcpState ==
    {"Listen", "SynSent", "SynReceived", "Established", "FinWait1", "FinWait2",
     "CloseWait", "LastAck", "TimeWait", "Closing", "Closed", "Unknown"}

TcpFlags == [syn : BOOLEAN, ack : BOOLEAN, fin : BOOLEAN, rst : BOOLEAN,
             psh : BOOLEAN, urg : BOOLEAN]

Flags(syn, ack, fin, rst) ==
    [syn |-> syn, ack |-> ack, fin |-> fin, rst |-> rst, psh |-> FALSE, urg |-> FALSE]

NoMatch == "NoMatch"

-----------------------------------------------------------------------------
(* merge.rs: update_tcp_state.  The match is evaluated arm by arm, first    *)
(* matching arm wins; the three groups below are the arms in source order.  *)

\* A handshake arm group in which the direction guards of the SYN arms are
\* exchanged.
tcp_handshake_arms_swapped(current_state, flags, is_outgoing) ==
    LET pat == <<flags.syn, flags.ack, flags.fin, flags.rst>> IN
    IF current_state = "Unknown" /\ pat = <<TRUE, FALSE, FALSE, FALSE>> /\ is_outgoing
        THEN "SynReceived"
    ELSE IF current_state = "Unknown" /\ pat = <<TRUE, FALSE, FALSE, FALSE>> /\ ~is_outgoing
        THEN "SynSent"
    ELSE IF current_state = "Listen" /\ pat = <<TRUE, FALSE, FALSE, FALSE>> /\ is_outgoing
        THEN "SynReceived"
    ELSE IF current_state = "Listen" /\ pat = <<TRUE, FALSE, FALSE, FALSE>> /\ ~is_outgoing
        THEN "SynSent"
    ELSE IF current_state = "SynSent" /\ pat = <<TRUE, TRUE, FALSE, FALSE>> /\ ~is_outgoing
        THEN "Established"
    ELSE IF current_state = "SynReceived" /\ pat = <<FALSE, TRUE, FALSE, FALSE>> /\ is_outgoing
        THEN "Established"
    ELSE IF current_state = "Unknown" /\ pat = <<FALSE, TRUE, FALSE, FALSE>>
        THEN "Established"
    ELSE NoMatch

\* Connection establishment - three-way handshake (arms 1..7).
tcp_handshake_arms(current_state, flags, is_outgoing) ==
    LET pat == <<flags.syn, flags.ack, flags.fin, flags.rst>> IN
    IF current_state = "Unknown" /\ pat = <<TRUE, FALSE, FALSE, FALSE>> /\ ~is_outgoing
        THEN "SynReceived"
    ELSE IF current_state = "Unknown" /\ pat = <<TRUE, FALSE, FALSE, FALSE>> /\ is_outgoing
        THEN "SynSent"
    ELSE IF current_state = "Listen" /\ pat = <<TRUE, FALSE, FALSE, FALSE>> /\ ~is_outgoing
        THEN "SynReceived"
    ELSE IF current_state = "Listen" /\ pat = <<TRUE, FALSE, FALSE, FALSE>> /\ is_outgoing
        THEN "SynSent"
    ELSE IF current_state = "SynSent" /\ pat = <<TRUE, TRUE, FALSE, FALSE>> /\ ~is_outgoing
        THEN "Established"
    ELSE IF current_state = "SynReceived" /\ pat = <<FALSE, TRUE, FALSE, FALSE>> /\ is_outgoing
        THEN "Established"
    ELSE IF current_state = "Unknown" /\ pat = <<FALSE, TRUE, FALSE, FALSE>>
        THEN "Established"
    ELSE NoMatch

\* A termination arm group that enters Closing instead of TimeWait when the
\* peer's FIN arrives in FinWait2.
tcp_close_arms_closing(current_state, flags, is_outgoing) ==
    LET finPat  == ~flags.syn /\ flags.fin /\ ~flags.rst
        ackPat  == ~flags.syn /\ flags.ack /\ ~flags.fin /\ ~flags.rst
    IN
    IF current_state = "Established" /\ finPat /\ is_outgoing THEN "FinWait1"
    ELSE IF current_state = "Established" /\ finPat /\ ~is_outgoing THEN "CloseWait"
    ELSE IF current_state = "FinWait1" /\ ackPat /\ ~is_outgoing THEN "FinWait2"
    ELSE IF current_state = "FinWait1" /\ finPat /\ ~is_outgoing THEN "Closing"
    ELSE IF current_state = "FinWait2" /\ finPat /\ ~is_outgoing THEN "Closing"
    ELSE IF current_state = "CloseWait" /\ finPat /\ is_outgoing THEN "LastAck"
    ELSE IF current_state = "LastAck" /\ ackPat /\ ~is_outgoing THEN "Closed"
    ELSE IF current_state = "Closing" /\ ackPat /\ ~is_outgoing THEN "TimeWait"
    ELSE NoMatch

\* A termination arm group whose two Established arms leave the FIN flag
\* unconstrained as well (pattern (false, _, _, false)).
tcp_close_arms_any_fin(current_state, flags, is_outgoing) ==
    LET anyPat  == ~flags.syn /\ ~flags.rst
        finPat  == ~flags.syn /\ flags.fin /\ ~flags.rst
        ackPat  == ~flags.syn /\ flags.ack /\ ~flags.fin /\ ~flags.rst
    IN
    IF current_state = "Established" /\ anyPat /\ is_outgoing THEN "FinWait1"
    ELSE IF current_state = "Established" /\ anyPat /\ ~is_outgoing THEN "CloseWait"
    ELSE IF current_state = "FinWait1" /\ ackPat /\ ~is_outgoing THEN "FinWait2"
    ELSE IF current_state = "FinWait1" /\ finPat /\ ~is_outgoing THEN "Closing"
    ELSE IF current_state = "FinWait2" /\ finPat /\ ~is_outgoing THEN "TimeWait"
    ELSE IF current_state = "CloseWait" /\ finPat /\ is_outgoing THEN "LastAck"
    ELSE IF current_state = "LastAck" /\ ackPat /\ ~is_outgoing THEN "Closed"
    ELSE IF current_state = "Closing" /\ ackPat /\ ~is_outgoing THEN "TimeWait"
    ELSE NoMatch

\* Connection termination - normal close (arms 8..15).  The FIN arms leave
\* the ACK flag unconstrained (pattern (false, _, true, false)).
tcp_close_arms(current_state, flags, is_outgoing) ==
    LET finPat  == ~flags.syn /\ flags.fin /\ ~flags.rst
        ackPat  == ~flags.syn /\ flags.ack /\ ~flags.fin /\ ~flags.rst
    IN
    IF current_state = "Established" /\ finPat /\ is_outgoing THEN "FinWait1"
    ELSE IF current_state = "Established" /\ finPat /\ ~is_outgoing THEN "CloseWait"
    ELSE IF current_state = "FinWait1" /\ ackPat /\ ~is_outgoing THEN "FinWait2"
    ELSE IF current_state = "FinWait1" /\ finPat /\ ~is_outgoing THEN "Closing"
    ELSE IF current_state = "FinWait2" /\ finPat /\ ~is_outgoing THEN "TimeWait"
    ELSE IF current_state = "CloseWait" /\ finPat /\ is_outgoing THEN "LastAck"
    ELSE IF current_state = "LastAck" /\ ackPat /\ ~is_outgoing THEN "Closed"
    ELSE IF current_state = "Closing" /\ ackPat /\ ~is_outgoing THEN "TimeWait"
    ELSE NoMatch

\* A reset arm that only matches a segment carrying RST alone.
tcp_reset_arm_pure(flags) ==
    flags.rst /\ ~flags.syn /\ ~flags.ack /\ ~flags.fin

\* A reset arm that ignores a RST segment carrying PSH.
tcp_reset_arm_unpushed(flags) ==
    flags.rst /\ ~flags.psh

\* Connection reset (arm 16): the pattern (_, _, _, _, true).
tcp_reset_arm(flags) ==
    flags.rst

\* An engine in which a SYN reopens a closed flow.
update_tcp_state_reopening(current_state, flags, is_outgoing) ==
    LET h == tcp_handshake_arms(current_state, flags, is_outgoing)
        c == tcp_close_arms(current_state, flags, is_outgoing)
    IN  IF current_state = "Closed" /\ flags.syn /\ ~flags.rst THEN "Listen"
        ELSE IF h # NoMatch THEN h
        ELSE IF c # NoMatch THEN c
        ELSE IF tcp_reset_arm(flags) THEN "Closed"
        ELSE current_state

update_tcp_state(current_state, flags, is_outgoing) ==
    LET h == tcp_handshake_arms(current_state, flags, is_outgoing)
        c == tcp_close_arms(current_state, flags, is_outgoing)
    IN  IF h # NoMatch THEN h
        ELSE IF c # NoMatch THEN c
        ELSE IF tcp_reset_arm(flags) THEN "Closed"
        ELSE current_state

-----------------------------------------------------------------------------
(* Harness for the state engine: a flow starts in any TcpState and receives *)
(* arbitrary segments; each is applied with update_tcp_state.               *)

NoCall == [from |-> "none"]
OffScript == 0 - 1

\* The packet sequence SYN(out), SYN+ACK(in), ACK(out), FIN(out), ACK(in),
\* FIN(in), ACK(out).
HandshakeCloseScript ==
    << [flags |-> Flags(TRUE, FALSE, FALSE, FALSE), out |-> TRUE],
       [flags |-> Flags(TRUE, TRUE, FALSE, FALSE),  out |-> FALSE],
       [flags |-> Flags(FALSE, TRUE, FALSE, FALSE), out |-> TRUE],
       [flags |-> Flags(FALSE, FALSE, TRUE, FALSE), out |-> TRUE],
       [flags |-> Flags(FALSE, TRUE, FALSE, FALSE), out |-> FALSE],
       [flags |-> Flags(FALSE, FALSE, TRUE, FALSE), out |-> FALSE],
       [flags |-> Flags(FALSE, TRUE, FALSE, FALSE), out |-> TRUE] >>

TcpSegment(flags, is_outgoing) ==
    LET new == update_tcp_state(tcp_state, flags, is_outgoing)
        onScript == /\ tcp_pos # OffScript
                    /\ tcp_pos < Len(HandshakeCloseScript)
                    /\ HandshakeCloseScript[tcp_pos + 1] =
                           [flags |-> flags, out |-> is_outgoing]
    IN  /\ tcp_state' = new
        /\ tcp_last' = [from |-> tcp_state, flags |-> flags,
                        out |-> is_outgoing, to |-> new]
        /\ tcp_pos' = IF onScript THEN tcp_pos + 1 ELSE OffScript
        /\ tcp_visited' = IF ~onScript THEN << >>
                          ELSE IF new # tcp_state THEN Append(tcp_visited, new)
                          ELSE tcp_visited
        /\ UNCHANGED <<mergeVars, monVars, reVars, appVars, thrVars>>

-----------------------------------------------------------------------------
(* types.rs: Connection, ProtocolState, DpiInfo; parser: ParsedPacket.      *)

\* Option<T>: None is the empty sequence, Some(x) the one-element sequence.
None == << >>
Some(x) == <<x>>

\* No Connection yet (no entry for the flow).
NoConn == [absent |-> TRUE]

Tcp(state) == [kind |-> "Tcp", state |-> state]
Udp == [kind |-> "Udp"]

\* The counters are u64.  TLC's integers are 32-bit, so the counter range is
\* scaled down: U64_MAX stands for u64::MAX and only its relation to the
\* packet lengths and packet counts matters.
U64_MAX == 1048575

\* Connection::new: zero counters, no attribution, both times the current time.
\* (remote_host and the rate fields are not read or written by merge.rs.)
Connection_new(protocol, local_addr, remote_addr, state, now) ==
    [protocol |-> protocol, local_addr |-> local_addr, remote_addr |-> remote_addr,
     protocol_state |-> state,
     pid |-> None, process_name |-> None,
     bytes_sent |-> 0, bytes_received |-> 0,
     packets_sent |-> 0, packets_received |-> 0,
     created_at |-> now, last_activity |-> now,
     service_name |-> None, dpi_info |-> None]

-----------------------------------------------------------------------------
(* merge.rs: merge_packet_into_connection                                   *)

\* u64 `+=`: the sum modulo 2^64 (release build; a debug build panics instead,
\* see merge_packet_overflows).
u64_add(a, b) == (a + b) % (U64_MAX + 1)

u64_add_overflows(a, b) == a + b > U64_MAX

\* Timing update that writes the wrong field.
merge_packet_timing_created(c, now) ==
    [c EXCEPT !.created_at = now]

\* conn.last_activity = now
merge_packet_timing(c, now) ==
    [c EXCEPT !.last_activity = now]

\* Counter update that ignores the packet's direction.
merge_packet_counters_sent_only(c, parsed) ==
    [c EXCEPT !.packets_sent = u64_add(@, 1),
              !.bytes_sent = u64_add(@, parsed.packet_len)]

\* Update packet counts and bytes
merge_packet_counters(c, parsed) ==
    IF parsed.is_outgoing
    THEN [c EXCEPT !.packets_sent = u64_add(@, 1),
                   !.bytes_sent = u64_add(@, parsed.packet_len)]
    ELSE [c EXCEPT !.packets_received = u64_add(@, 1),
                   !.bytes_received = u64_add(@, parsed.packet_len)]

\* Whether one of the two additions of merge_packet_counters overflows.
merge_packet_overflows(c, parsed) ==
    IF parsed.is_outgoing
    THEN u64_add_overflows(c.packets_sent, 1)
            \/ u64_add_overflows(c.bytes_sent, parsed.packet_len)
    ELSE u64_add_overflows(c.packets_received, 1)
            \/ u64_add_overflows(c.bytes_received, parsed.packet_len)

\* Update protocol state: the if/else computes the state, and the statement
\* that follows it assigns the parser's state unconditionally.
merge_packet_state(c, parsed) ==
    LET current_tcp_state ==
            IF c.protocol_state.kind = "Tcp" THEN c.protocol_state.state ELSE "Unknown"
        computed ==
            IF parsed.tcp_flags # None
            THEN [c EXCEPT !.protocol_state =
                      Tcp(update_tcp_state(current_tcp_state, parsed.tcp_flags[1],
                                           parsed.is_outgoing))]
            ELSE [c EXCEPT !.protocol_state = parsed.protocol_state]
    IN  [computed EXCEPT !.protocol_state = parsed.protocol_state]

\* DPI merge that always installs the new result.
merge_dpi_info_overwrite(c, dpi_result, now) ==
    [c EXCEPT !.dpi_info = Some([application |-> dpi_result.application,
                                 first_packet_time |-> now,
                                 last_update_time |-> now])]

\* merge_dpi_info: install only when the connection has none.
merge_dpi_info(c, dpi_result, now) ==
    IF c.dpi_info = None
    THEN [c EXCEPT !.dpi_info = Some([application |-> dpi_result.application,
                                      first_packet_time |-> now,
                                      last_update_time |-> now])]
    ELSE c

merge_packet_into_connection(c, parsed, now) ==
    LET c1 == merge_packet_timing(c, now)
        c2 == merge_packet_counters(c1, parsed)
        c3 == merge_packet_state(c2, parsed)
    IN  IF parsed.dpi_result # None
        THEN merge_dpi_info(c3, parsed.dpi_result[1], now)
        ELSE c3

-----------------------------------------------------------------------------
(* merge.rs: create_connection_from_packet                                  *)

\* Initial stats that leave the byte counter at zero.
create_initial_stats_no_bytes(c, parsed) ==
    IF parsed.is_outgoing
    THEN [c EXCEPT !.packets_sent = 1]
    ELSE [c EXCEPT !.packets_received = 1]

\* Set initial stats based on packet direction
create_initial_stats(c, parsed) ==
    IF parsed.is_outgoing
    THEN [c EXCEPT !.packets_sent = 1, !.bytes_sent = parsed.packet_len]
    ELSE [c EXCEPT !.packets_received = 1, !.bytes_received = parsed.packet_len]

create_connection_from_packet(parsed, now) ==
    LET c0 == Connection_new(parsed.protocol, parsed.local_addr, parsed.remote_addr,
                             parsed.protocol_state, now)
        c1 == IF parsed.tcp_flags # None
              THEN [c0 EXCEPT !.protocol_state =
                        Tcp(update_tcp_state("Unknown", parsed.tcp_flags[1],
                                             parsed.is_outgoing))]
              ELSE [c0 EXCEPT !.protocol_state = parsed.protocol_state]
        c2 == create_initial_stats(c1, parsed)
        c3 == IF parsed.dpi_result # None
              THEN [c2 EXCEPT !.dpi_info =
                        Some([application |-> parsed.dpi_result[1].application,
                              first_packet_time |-> now, last_update_time |-> now])]
              ELSE c2
    IN  [c3 EXCEPT !.created_at = now, !.last_activity = now]

-----------------------------------------------------------------------------
(* merge.rs: merge_connections                                              *)

Max(a, b) == IF a >= b THEN a ELSE b
Min(a, b) == IF a <= b THEN a ELSE b

\* Traffic-stat merge that copies the secondary's counters.
merge_traffic_stats_copy(primary, secondary) ==
    [primary EXCEPT !.bytes_sent = secondary.bytes_sent,
                    !.bytes_received = secondary.bytes_received,
                    !.packets_sent = secondary.packets_sent,
                    !.packets_received = secondary.packets_received]

\* Merge traffic stats (take the maximum)
merge_traffic_stats(primary, secondary) ==
    [primary EXCEPT !.bytes_sent = Max(@, secondary.bytes_sent),
                    !.bytes_received = Max(@, secondary.bytes_received),
                    !.packets_sent = Max(@, secondary.packets_sent),
                    !.packets_received = Max(@, secondary.packets_received)]

\* Use the earlier creation time and the later last activity time
merge_times(primary, secondary) ==
    [primary EXCEPT
        !.created_at = IF secondary.created_at < @ THEN secondary.created_at ELSE @,
        !.last_activity = IF secondary.last_activity > @ THEN secondary.last_activity ELSE @]

merge_connections(primary, secondary) ==
    LET p1 == IF primary.pid = None /\ secondary.pid # None
              THEN [primary EXCEPT !.pid = secondary.pid,
                                   !.process_name = secondary.process_name]
              ELSE primary
        p2 == IF p1.service_name = None /\ secondary.service_name # None
              THEN [p1 EXCEPT !.service_name = secondary.service_name]
              ELSE p1
        p3 == merge_traffic_stats(p2, secondary)
        p4 == merge_times(p3, secondary)
    IN  IF secondary.dpi_info # None /\ p4.dpi_info = None
        THEN [p4 EXCEPT !.dpi_info = secondary.dpi_info]
        ELSE p4

-----------------------------------------------------------------------------
(* One flow driven through the merge utilities.                             *)

MaxPackets == 3       \* packets of a flow under SpecMerge, the creating one included
MaxSized == 4         \* packets of a flow under SpecCounters, the creating one included
MaxClock == 1         \* clock values 0..MaxClock

LocalAddr == "192.168.1.100:12345"
RemoteAddr == "10.0.0.1:80"

PacketLens == {52, 60, 200}

\* Flag sets of the segments offered to the flow: SYN, SYN+ACK, ACK, FIN, RST.
SegmentFlags ==
    { Flags(TRUE, FALSE, FALSE, FALSE), Flags(TRUE, TRUE, FALSE, FALSE),
      Flags(FALSE, TRUE, FALSE, FALSE), Flags(FALSE, FALSE, TRUE, FALSE),
      Flags(FALSE, FALSE, FALSE, TRUE) }

Packet(protocol, state, flags, out, len, dpi) ==
    [protocol |-> protocol, local_addr |-> LocalAddr, remote_addr |-> RemoteAddr,
     protocol_state |-> state, tcp_flags |-> flags, is_outgoing |-> out,
     packet_len |-> len, dpi_result |-> dpi]

DpiResult(app) == Some([application |-> app])

AckOnly == Flags(FALSE, TRUE, FALSE, FALSE)

\* Parsed packets offered to a flow whose state, classification and times are
\* observed; all are 60 bytes long.  The parser does not know the flow's
\* history: it reports Tcp(Unknown), or Tcp(Established) for a plain ACK.
\*   - TCP segments of every flag set and direction, no DPI result;
\*   - plain ACKs of either direction, without and with a DPI result;
\*   - UDP datagrams (no tcp_flags), without and with a DPI result.
ParsedPackets ==
    { Packet("TCP", Tcp("Unknown"), Some(f), out, 60, None) :
          f \in SegmentFlags, out \in BOOLEAN }
    \cup
    { Packet("TCP", Tcp("Established"), Some(AckOnly), out, 60, None) :
          out \in BOOLEAN }
    \cup
    { Packet("TCP", Tcp("Established"), Some(AckOnly), TRUE, 60, DpiResult("Http")),
      Packet("TCP", Tcp("Established"), Some(AckOnly), FALSE, 60, DpiResult("Ssh")) }
    \cup
    { Packet("UDP", Udp, None, TRUE, 60, None),
      Packet("UDP", Udp, None, FALSE, 60, DpiResult("Dns")) }

\* Parsed packets offered to a flow whose counters are observed: plain ACKs
\* of either direction and every length.
SizedPackets ==
    { Packet("TCP", Tcp("Established"), Some(AckOnly), out, len, None) :
          out \in BOOLEAN, len \in PacketLens }

Secondary(c, l, st, who, dpi) ==
    [Connection_new("TCP", LocalAddr, RemoteAddr, Tcp("Established"), c) EXCEPT
        !.last_activity = l,
        !.bytes_sent = st[1], !.bytes_received = st[2],
        !.packets_sent = st[3], !.packets_received = st[4],
        !.pid = who[1], !.process_name = who[2], !.service_name = who[3],
        !.dpi_info = dpi]

SecondaryDpi(t) ==
    Some([application |-> "Quic", first_packet_time |-> t, last_update_time |-> t])

\* Connections offered as the secondary of merge_connections:
\*   - an entry with a process and traffic, for every pair of times
\*     created_at <= last_activity;
\*   - an entry with another process and a DPI classification.
Secondaries ==
    { Secondary(c, l, <<2000, 60, 3, 1>>, <<Some(5678), Some("chrome"), Some("http")>>, None) :
          c \in 0..MaxClock, l \in 0..MaxClock }
    \cup
    { Secondary(0, 0, <<0, 0, 0, 0>>, <<Some(4242), Some("curl"), None>>, SecondaryDpi(0)) }

ValidSecondaries == { s \in Secondaries : s.created_at <= s.last_activity }

\* Secondaries offered to a flow whose counters are observed: one with some
\* traffic and one whose sent counters are at the counter maximum.
SizedSecondaries ==
    { Secondary(0, 0, <<2000, 60, 3, 1>>, <<None, None, None>>, None),
      Secondary(0, 0, <<U64_MAX, 60, U64_MAX, 1>>, <<None, None, None>>, None) }

NoOp == [op |-> "none", dpi |-> FALSE]

NoTally ==
    [packets_out |-> 0, bytes_out |-> 0, packets_in |-> 0, bytes_in |-> 0,
     conn_merged |-> FALSE, from_packet |-> FALSE]

Count(t, parsed) ==
    IF parsed.is_outgoing
    THEN [t EXCEPT !.packets_out = @ + 1, !.bytes_out = @ + parsed.packet_len]
    ELSE [t EXCEPT !.packets_in = @ + 1, !.bytes_in = @ + parsed.packet_len]

\* The wall clock advances.
Tick ==
    /\ ~panicked
    /\ clock < MaxClock
    /\ clock' = clock + 1
    /\ UNCHANGED <<conn, panicked, tally, merge_last, tcpVars, monVars, reVars, appVars, thrVars>>

\* First packet of the flow: no entry exists, one is created from the packet.
CreateFromPacket(parsed) ==
    /\ ~panicked
    /\ conn = NoConn
    /\ conn' = create_connection_from_packet(parsed, clock)
    /\ tally' = [Count(tally, parsed) EXCEPT !.from_packet = TRUE]
    /\ merge_last' = [op |-> "create", dpi |-> parsed.dpi_result # None]
    /\ UNCHANGED <<clock, panicked, tcpVars, monVars, reVars, appVars, thrVars>>

\* The flow's Connection is constructed directly with Connection::new.
NewConnection(state) ==
    /\ ~panicked
    /\ conn = NoConn
    /\ conn' = Connection_new("TCP", LocalAddr, RemoteAddr, state, clock)
    /\ merge_last' = [op |-> "new", dpi |-> FALSE]
    /\ UNCHANGED <<clock, panicked, tally, tcpVars, monVars, reVars, appVars, thrVars>>

\* A later packet of the flow is merged into the existing entry.  When one of
\* the counter additions overflows, the build decides: a build with overflow
\* checks panics inside the call (no Connection is returned), one without
\* wraps.  Both outcomes are possible.
MergePacket(parsed, limit) ==
    /\ ~panicked
    /\ conn # NoConn
    /\ tally.packets_out + tally.packets_in < limit
    /\ merge_last' = [op |-> "merge_packet", dpi |-> parsed.dpi_result # None]
    /\ \/ /\ merge_packet_overflows(conn, parsed)
          /\ panicked' = TRUE
          /\ UNCHANGED <<conn, tally>>
       \/ /\ conn' = merge_packet_into_connection(conn, parsed, clock)
          /\ tally' = Count(tally, parsed)
          /\ UNCHANGED panicked
    /\ UNCHANGED <<clock, tcpVars, monVars, reVars, appVars, thrVars>>

\* Data about the flow from another source is merged in.
MergeConnections(secondary) ==
    /\ ~panicked
    /\ conn # NoConn
    /\ conn' = merge_connections(conn, secondary)
    /\ tally' = [tally EXCEPT !.conn_merged = TRUE]
    /\ merge_last' = [op |-> "merge_connections", dpi |-> secondary.dpi_info # None]
    /\ UNCHANGED <<clock, panicked, tcpVars, monVars, reVars, appVars, thrVars>>

-----------------------------------------------------------------------------
(* mod.rs: ConnectionState, Connection, NetworkMonitor::process_packets     *)

ConnectionState ==
    {"Established", "SynSent", "SynReceived", "FinWait1", "FinWait2", "TimeWait",
     "CloseWait", "LastAck", "Listen", "Closing", "Reset", "Unknown"}

SocketAddr(ip, port) == [ip |-> ip, port |-> port]

\* Connection::new of mod.rs: zero counters, no process, both times now.
\* (origin is a history field: the place that constructed the Connection.)
MonitorConnection_new(protocol, local_addr, remote_addr, state, now) ==
    [protocol |-> protocol, local_addr |-> local_addr, remote_addr |-> remote_addr,
     state |-> state, pid |-> None, process_name |-> None,
     bytes_sent |-> 0, bytes_received |-> 0,
     packets_sent |-> 0, packets_received |-> 0,
     created_at |-> now, last_activity |-> now, origin |-> "new"]

ACTIVE_WINDOW_MS == 60000
POLL_INTERVAL_MS == 100

\* `for _ in 0..100`: 100 frames per poll in the source.  The poll loop is
\* modelled frame by frame, so the batch is scaled down; only its relation to
\* the number of frames the capture holds matters.
POLL_BATCH == 8
INITIAL_CHECK_AGE_MS == 200

idle_time(c, now) == IF now >= c.last_activity THEN now - c.last_activity ELSE 0

is_active(c, now) == idle_time(c, now) < ACTIVE_WINDOW_MS

\* A direction test whose 172 range has no upper end.
is_outgoing_ip_open_range(src_ip) ==
    \/ src_ip[1] = 10
    \/ (src_ip[1] = 172 /\ src_ip[2] >= 16)
    \/ (src_ip[1] = 192 /\ src_ip[2] = 168)
    \/ src_ip[1] = 127

\* Determine if packet is outgoing based on IP address
is_outgoing_ip(src_ip) ==
    \/ src_ip[1] = 10
    \/ (src_ip[1] = 172 /\ src_ip[2] >= 16 /\ src_ip[2] <= 31)
    \/ (src_ip[1] = 192 /\ src_ip[2] = 168)
    \/ src_ip[1] = 127

\* Determine connection state from flags (the TCP flags byte).
state_from_flags(flags) ==
    CASE flags = 2 -> "SynSent"
      [] flags = 18 -> "SynReceived"
      [] flags = 16 -> "Established"
      [] flags = 1 -> "FinWait1"
      [] flags = 17 -> "FinWait2"
      [] flags = 4 -> "Reset"
      [] flags = 20 -> "Closing"
      [] OTHER -> "Established"

\* format!("{:?}:{}-{:?}:{}", protocol, local_addr, protocol, remote_addr)
conn_key(protocol, local_addr, remote_addr) == <<protocol, local_addr, remote_addr>>

EmptyMap == [k \in {} |-> NoConn]

\* Counter update that leaves the packet counters alone.
count_frame_bytes_only(c, data, is_outgoing) ==
    IF is_outgoing
    THEN [c EXCEPT !.bytes_sent = u64_add(@, data.len)]
    ELSE [c EXCEPT !.bytes_received = u64_add(@, data.len)]

\* The `+=` block repeated in the four create/update branches.
count_frame(c, data, is_outgoing) ==
    IF is_outgoing
    THEN [c EXCEPT !.packets_sent = u64_add(@, 1),
                   !.bytes_sent = u64_add(@, data.len)]
    ELSE [c EXCEPT !.packets_received = u64_add(@, 1),
                   !.bytes_received = u64_add(@, data.len)]

count_frame_overflows(c, data, is_outgoing) ==
    IF is_outgoing
    THEN u64_add_overflows(c.packets_sent, 1) \/ u64_add_overflows(c.bytes_sent, data.len)
    ELSE u64_add_overflows(c.packets_received, 1)
            \/ u64_add_overflows(c.bytes_received, data.len)

\* Local and remote address, and key, of the entry a frame belongs to.
frame_key(data) ==
    LET out == is_outgoing_ip(data.src_ip)
        src == SocketAddr(data.src_ip, data.src_port)
        dst == SocketAddr(data.dst_ip, data.dst_port)
        protocol == IF data.protocol = 6 THEN "TCP" ELSE "UDP"
    IN  IF out THEN conn_key(protocol, src, dst) ELSE conn_key(protocol, dst, src)

\* Create or update connection (the TCP and the UDP branch).
upsert(conns, data, now) ==
    LET out == is_outgoing_ip(data.src_ip)
        key == frame_key(data)
        tcp == data.protocol = 6
        state == IF tcp THEN state_from_flags(data.flags) ELSE "Unknown"
        updated ==
            LET c == count_frame([conns[key] EXCEPT !.last_activity = now], data, out)
            IN  IF tcp THEN [c EXCEPT !.state = state] ELSE c
        created ==
            count_frame([MonitorConnection_new(key[1], key[2], key[3], state, now)
                             EXCEPT !.last_activity = now, !.origin = "packet"],
                        data, out)
    IN  [k \in DOMAIN conns \cup {key} |->
            IF k = key
            THEN (IF key \in DOMAIN conns THEN updated ELSE created)
            ELSE conns[k]]

\* Whether the frame reaches the create/update branches.
frame_accepted(data) ==
    /\ data.len >= 14
    /\ data.len - 14 >= 20
    /\ data.version = 4
    /\ data.len - 14 - data.ihl * 4 >= 8
    /\ \/ data.protocol = 6 /\ data.len - 14 - data.ihl * 4 >= 20
       \/ data.protocol = 17

\* Whether process_single_packet panics on the frame: the slice
\* &ip_data[ip_header_len..] is out of range, or (in a build with overflow
\* checks) a counter addition overflows.
process_single_packet_panics(data, conns) ==
    \/ /\ data.len >= 14
       /\ data.len - 14 >= 20
       /\ data.version = 4
       /\ data.ihl * 4 > data.len - 14
    \/ /\ frame_accepted(data)
       /\ frame_key(data) \in DOMAIN conns
       /\ count_frame_overflows(conns[frame_key(data)], data, is_outgoing_ip(data.src_ip))

process_single_packet(data, conns, now) ==
    IF frame_accepted(data) THEN upsert(conns, data, now) ELSE conns

\* A poll loop without the limit of 100 turns.
poll_batch_unbounded(yielded) == yielded

\* The loop's turns: of the frames the capture yields before next_packet
\* returns Err, the loop reads at most one batch.
poll_batch(yielded) == IF yielded < POLL_BATCH THEN yielded ELSE POLL_BATCH

\* The poll loop: frames are processed in order until one panics.
RECURSIVE drain(_, _, _, _)
drain(conns, frames, now, consumed) ==
    IF frames = << >>
    THEN [connections |-> conns, panicked |-> FALSE, consumed |-> consumed]
    ELSE IF process_single_packet_panics(Head(frames), conns)
    THEN [connections |-> conns, panicked |-> TRUE, consumed |-> consumed + 1]
    ELSE drain(process_single_packet(Head(frames), conns, now), Tail(frames), now,
               consumed + 1)

-----------------------------------------------------------------------------
(* linux.rs: get_platform_connections and its sources                       *)

\* parse_addr (mod.rs).  The text of an address field is one of
\*   [kind |-> "addr", addr |-> a]  "ip:port" text that parses to a,
\*   [kind |-> "port", port |-> n]  digits only: taken as 127.0.0.1:n,
\*   [kind |-> "other"]             anything else (e.g. "*:*"): not parsed.
AddrText(a) == [kind |-> "addr", addr |-> a]
PortText(n) == [kind |-> "port", port |-> n]
OtherText == [kind |-> "other"]

parse_addr(text) ==
    CASE text.kind = "addr" -> Some(text.addr)
      [] text.kind = "port" -> Some(SocketAddr(<<127, 0, 0, 1>>, text.port))
      [] OTHER -> None

netid_protocol(netid) ==
    CASE netid \in {"tcp", "tcp6"} -> Some("TCP")
      [] netid \in {"udp", "udp6"} -> Some("UDP")
      [] OTHER -> None

ss_state(state_str, protocol) ==
    CASE state_str = "ESTAB" -> "Established"
      [] state_str = "LISTEN" -> "Listen"
      [] state_str = "TIME-WAIT" -> "TimeWait"
      [] state_str = "CLOSE-WAIT" -> "CloseWait"
      [] state_str = "SYN-SENT" -> "SynSent"
      [] state_str = "SYN-RECV" -> "SynReceived"
      [] state_str = "FIN-WAIT-1" -> "FinWait1"
      [] state_str = "FIN-WAIT-2" -> "FinWait2"
      [] state_str = "LAST-ACK" -> "LastAck"
      [] state_str = "CLOSING" -> "Closing"
      [] state_str = "UNCONN" /\ protocol = "UDP" -> "Established"
      [] OTHER -> "Unknown"

netstat_state(state_str) ==
    CASE state_str = "ESTABLISHED" -> "Established"
      [] state_str \in {"LISTENING", "LISTEN"} -> "Listen"
      [] state_str = "TIME_WAIT" -> "TimeWait"
      [] state_str = "CLOSE_WAIT" -> "CloseWait"
      [] state_str = "SYN_SENT" -> "SynSent"
      [] state_str \in {"SYN_RECEIVED", "SYN_RECV"} -> "SynReceived"
      [] state_str = "FIN_WAIT_1" -> "FinWait1"
      [] state_str = "FIN_WAIT_2" -> "FinWait2"
      [] state_str = "LAST_ACK" -> "LastAck"
      [] state_str = "CLOSING" -> "Closing"
      [] OTHER -> "Unknown"

\* One line of `ss -tupn` (fields Netid, State, Recv-Q, Send-Q, Local, Peer,
\* Process): the Connection it yields, if any.  process is None or
\* Some([pid, name]) as found in users:(("name",pid=N,fd=M)).
ss_line(line, now) ==
    LET protocol == netid_protocol(line.netid)
        local == parse_addr(line.local)
        remote == parse_addr(line.peer)
    IN  IF protocol = None \/ local = None \/ remote = None
        THEN None
        ELSE LET c == [MonitorConnection_new(protocol[1], local[1], remote[1],
                                             ss_state(line.state, protocol[1]), now)
                          EXCEPT !.origin = "ss"]
             IN  IF line.process = None
                 THEN Some(c)
                 ELSE Some([c EXCEPT !.pid = Some(line.process[1].pid),
                                     !.process_name = Some(line.process[1].name)])

\* One line of `netstat -tupn` (fields Proto, Recv-Q, Send-Q, Local, Foreign,
\* State, PID/Program): the addresses are read from fields 1 and 2.
netstat_line(line, now) ==
    LET protocol == netid_protocol(line.proto)
        local == parse_addr(line.recv_q)
        remote == parse_addr(line.send_q)
    IN  IF protocol = None \/ local = None \/ remote = None
        THEN None
        ELSE LET c == [MonitorConnection_new(protocol[1], local[1], remote[1],
                                             netstat_state(line.state), now)
                          EXCEPT !.origin = "netstat"]
             IN  IF line.process = None
                 THEN Some(c)
                 ELSE Some([c EXCEPT !.pid = Some(line.process[1].pid),
                                     !.process_name = Some(line.process[1].name)])

\* Concatenation of a sequence of Options (None entries are skipped lines).
RECURSIVE pushed(_)
pushed(options) ==
    IF options = << >> THEN << >> ELSE Head(options) \o pushed(Tail(options))

\* A command's outcome: "exec_error" (the command could not be run),
\* "exit_failure" (non-zero exit status) or "ok" with its data lines.
get_connections_from_ss(out, now) ==
    IF out.result = "ok"
    THEN pushed([i \in DOMAIN out.lines |-> ss_line(out.lines[i], now)])
    ELSE << >>

get_connections_from_netstat(out, now) ==
    IF out.result = "ok"
    THEN pushed([i \in DOMAIN out.lines |-> netstat_line(out.lines[i], now)])
    ELSE << >>

\* local_ip_address: the IPv4 address of the first interface that is up and
\* not loopback (interface_ip, None when there is no such interface), else the
\* hardcoded fallback address.
local_ip_address(interface_ip) ==
    IF interface_ip = None THEN Some(<<192, 168, 1, 100>>) ELSE interface_ip

\* Sample connections added when the commands produced nothing.
get_connections_from_pcap(local_ip, now) ==
    IF local_ip = None
    THEN << >>
    ELSE LET sample(protocol, port) ==
                 [MonitorConnection_new(protocol, SocketAddr(local_ip[1], 10000 + port),
                                        SocketAddr(<<8, 8, 8, 8>>, port),
                                        "Established", now)
                     EXCEPT !.origin = "sample"]
         IN  <<sample("TCP", 80), sample("TCP", 443), sample("TCP", 22),
               sample("TCP", 53), sample("UDP", 53)>>

\* get_platform_connections as it would be if the error of
\* get_connections_from_ss were propagated with `?`.
get_platform_connections_propagating(ss_out, netstat_out, local_ip, now) ==
    IF ss_out.result = "exec_error"
    THEN << >>
    ELSE LET found == get_connections_from_ss(ss_out, now)
                         \o get_connections_from_netstat(netstat_out, now)
         IN  IF found = << >>
             THEN get_connections_from_pcap(local_ip_address(local_ip), now)
             ELSE found

get_platform_connections(ss_out, netstat_out, local_ip, now) ==
    LET found == get_connections_from_ss(ss_out, now)
                    \o get_connections_from_netstat(netstat_out, now)
    IN  IF found = << >>
        THEN get_connections_from_pcap(local_ip_address(local_ip), now)
        ELSE found

-----------------------------------------------------------------------------
(* mod.rs: NetworkMonitor::get_connections                                  *)

is_loopback(ip) == ip[1] = 127

\* Vec::sort_by(|a, b| b.last_activity.cmp(&a.last_activity)): a stable sort,
\* latest activity first.
RECURSIVE insert_by_last_activity(_, _)
insert_by_last_activity(sorted, c) ==
    IF sorted = << >>
    THEN <<c>>
    ELSE IF Head(sorted).last_activity >= c.last_activity
    THEN <<Head(sorted)>> \o insert_by_last_activity(Tail(sorted), c)
    ELSE <<c>> \o sorted

RECURSIVE sort_by_last_activity(_)
sort_by_last_activity(list) ==
    IF list = << >>
    THEN << >>
    ELSE insert_by_last_activity(sort_by_last_activity(SubSeq(list, 1, Len(list) - 1)),
                                 list[Len(list)])

\* The orders in which a HashMap with the given keys may be iterated.
IterationOrders(keys) ==
    { order \in [1..Cardinality(keys) -> keys] :
          \A i, j \in DOMAIN order : i # j => order[i] # order[j] }

\* Add connections from packet capture: those not in the list and active.
add_packet_connections(list, conns, order, now) ==
    LET exists(c) == \E i \in DOMAIN list :
                         /\ list[i].protocol = c.protocol
                         /\ list[i].local_addr = c.local_addr
                         /\ list[i].remote_addr = c.remote_addr
        add(k) == IF ~exists(conns[k]) /\ is_active(conns[k], now)
                  THEN <<conns[k]>> ELSE << >>
    IN  list \o pushed([i \in DOMAIN order |-> add(order[i])])

\* What get_connections returns, given the map after the packets were
\* processed.  (collect_process_info is false: app.rs sets it so.)
get_connections(conns, order, ss_out, netstat_out, local_ip, filter, now) ==
    LET platform == get_platform_connections(ss_out, netstat_out, local_ip, now)
        all == add_packet_connections(platform, conns, order, now)
        sorted == sort_by_last_activity(all)
        keep(c) == ~(is_loopback(c.local_addr.ip) /\ is_loopback(c.remote_addr.ip))
    IN  IF filter THEN SelectSeq(sorted, keep) ELSE sorted

-----------------------------------------------------------------------------
(* The monitor driven by captured frames, the clock and its callers.        *)

MaxFrames == 2        \* frames captured in a run
MaxCalls == 2         \* calls of get_connections in a run
MaxAdvances == 1      \* clock advances in a run

HostIp == <<192, 168, 1, 100>>
PeerIp == <<8, 8, 8, 8>>

Frame(len, ihl, protocol, src_ip, src_port, dst_ip, dst_port, flags) ==
    [len |-> len, version |-> 4, ihl |-> ihl, protocol |-> protocol,
     src_ip |-> src_ip, src_port |-> src_port,
     dst_ip |-> dst_ip, dst_port |-> dst_port, flags |-> flags]

\* Frames the capture may deliver: a TCP SYN from the host and the SYN+ACK
\* answering it, a minimal UDP datagram from the host, a frame cut after the
\* IP header, and a frame whose IHL points past its end.
Frames ==
    { Frame(74, 5, 6, HostIp, 12345, PeerIp, 443, 2),
      Frame(74, 5, 6, PeerIp, 443, HostIp, 12345, 18),
      Frame(42, 5, 17, HostIp, 5353, PeerIp, 53, 0),
      Frame(34, 5, 6, HostIp, 12345, PeerIp, 443, 16),
      Frame(42, 15, 17, HostIp, 5353, PeerIp, 53, 0) }

\* The minimal UDP datagram from the host, alone.
DatagramFrames == { Frame(42, 5, 17, HostIp, 5353, PeerIp, 53, 0) }

HostSocket == SocketAddr(HostIp, 12345)
PeerSocket == SocketAddr(PeerIp, 443)

SsTcpLine ==
    [netid |-> "tcp", state |-> "ESTAB", local |-> AddrText(HostSocket),
     peer |-> AddrText(PeerSocket), process |-> Some([pid |-> 789, name |-> "curl"])]

SsUdpLine ==
    [netid |-> "udp", state |-> "UNCONN", local |-> OtherText, peer |-> OtherText,
     process |-> None]

NetstatTcpLine ==
    [proto |-> "tcp", recv_q |-> PortText(0), send_q |-> PortText(0),
     local |-> AddrText(HostSocket), foreign |-> AddrText(PeerSocket),
     state |-> "ESTABLISHED", process |-> Some([pid |-> 789, name |-> "curl"])]

Ok(lines) == [result |-> "ok", lines |-> lines]
Failed(how) == [result |-> how, lines |-> << >>]

\* What the three sources find in one call: the output of ss, the output of
\* netstat, and the IPv4 address of the first interface that is up and not
\* loopback (None when there is none).
Snapshot(ss_out, netstat_out, local_ip) ==
    [ss |-> ss_out, netstat |-> netstat_out, local_ip |-> local_ip]

Snapshots ==
    { Snapshot(Ok(<<SsTcpLine, SsUdpLine>>), Ok(<< >>), Some(HostIp)),
      Snapshot(Failed("exec_error"), Ok(<<NetstatTcpLine>>), None),
      Snapshot(Ok(<<SsTcpLine, SsUdpLine>>), Ok(<<NetstatTcpLine>>), None),
      Snapshot(Failed("exit_failure"), Failed("exec_error"), Some(HostIp)),
      Snapshot(Ok(<< >>), Ok(<< >>), None) }

\* A second socket as netstat lists it.
NetstatSecondLine ==
    [proto |-> "tcp", recv_q |-> PortText(0), send_q |-> PortText(0),
     local |-> AddrText(SocketAddr(HostIp, 54321)),
     foreign |-> AddrText(SocketAddr(PeerIp, 80)),
     state |-> "TIME_WAIT", process |-> None]

\* Socket tables in which one socket is listed by both commands, or netstat
\* lists two sockets.
SocketTables ==
    { Snapshot(Ok(<<SsTcpLine>>), Ok(<<NetstatTcpLine>>), None),
      Snapshot(Failed("exec_error"), Ok(<<NetstatTcpLine, NetstatSecondLine>>), None),
      Snapshot(Ok(<< >>), Ok(<< >>), Some(HostIp)) }

ClockSteps == { 100, 60000 }

\* Inputs for the fusion of packets and socket tables: an ACK and a RST of the
\* host's TCP flow and a UDP datagram; socket tables that list the TCP flow
\* with a state word ss_state does not know, list it as ESTAB, or list another
\* socket only.
FusionFrames ==
    { Frame(74, 5, 6, HostIp, 12345, PeerIp, 443, 16),
      Frame(74, 5, 6, HostIp, 12345, PeerIp, 443, 4),
      Frame(42, 5, 17, HostIp, 5353, PeerIp, 53, 0) }

SsUnknownStateLine ==
    [netid |-> "tcp", state |-> "UNCONN", local |-> AddrText(HostSocket),
     peer |-> AddrText(PeerSocket), process |-> Some([pid |-> 789, name |-> "curl"])]

SsOtherSocketLine ==
    [netid |-> "tcp", state |-> "ESTAB", local |-> AddrText(SocketAddr(HostIp, 22222)),
     peer |-> AddrText(SocketAddr(PeerIp, 80)), process |-> None]

FusionTables ==
    { Snapshot(Ok(<<SsUnknownStateLine>>), Ok(<< >>), Some(HostIp)),
      Snapshot(Ok(<<SsTcpLine>>), Failed("exec_error"), Some(HostIp)),
      Snapshot(Ok(<<SsOtherSocketLine>>), Ok(<< >>), Some(HostIp)) }

\* ss lists one socket of another flow, netstat is not needed.
OtherSocketTables ==
    { Snapshot(Ok(<<SsOtherSocketLine>>), Ok(<< >>), Some(HostIp)) }

\* Every combination of the outcomes of the two commands: run and listing one
\* socket, not executable, or exiting with a non-zero status.
\* UDP datagrams and a TCP segment to a public address from sources at and
\* around the ends of the four private ranges.
PolicyFrames ==
    { Frame(42, 5, 17, src_ip, 5353, <<1, 1, 1, 1>>, 53, 0) :
          src_ip \in { <<172, 15, 255, 255>>, <<172, 16, 0, 0>>, <<172, 31, 255, 255>>,
                       <<172, 32, 0, 0>>, <<192, 168, 0, 0>>, <<127, 0, 0, 1>>,
                       <<128, 0, 0, 1>> } }
        \cup { Frame(54, 5, 6, <<10, 255, 255, 255>>, 12345, <<1, 1, 1, 1>>, 443, 16) }

SourceOutcomes ==
    { Snapshot(ss_out, netstat_out, Some(HostIp)) :
          ss_out \in { Ok(<<SsTcpLine>>), Failed("exec_error"), Failed("exit_failure") },
          netstat_out \in { Ok(<<NetstatSecondLine>>), Failed("exec_error"),
                            Failed("exit_failure") } }

\* Frames around the shortest one that carries a UDP datagram: an Ethernet
\* header cut short (13), alone (14), with an IP header cut short (33), with
\* the IP header alone (34), with 7 bytes of UDP header (41), the whole UDP
\* header (42), a 42-byte frame of IP version 6, and a 34-byte frame whose IHL
\* nibble is 0, so that the code reads the ports from the first four bytes of
\* the IP header (0x45 0x00 and the total length 20).
ShortFrames ==
    { Frame(13, 5, 17, HostIp, 5353, PeerIp, 53, 0),
      Frame(14, 5, 17, HostIp, 5353, PeerIp, 53, 0),
      Frame(33, 5, 17, HostIp, 5353, PeerIp, 53, 0),
      Frame(34, 5, 17, HostIp, 5353, PeerIp, 53, 0),
      Frame(41, 5, 17, HostIp, 5353, PeerIp, 53, 0),
      Frame(42, 5, 17, HostIp, 5353, PeerIp, 53, 0),
      [Frame(42, 5, 17, HostIp, 5353, PeerIp, 53, 0) EXCEPT !.version = 6],
      Frame(34, 0, 17, HostIp, 16384, PeerIp, 20, 0) }

\* The two directions of a flow between a private and a public address, two
\* private addresses, two loopback sockets, and two public addresses.
BothDirections(protocol, x_ip, x_port, y_ip, y_port) ==
    LET len == IF protocol = 6 THEN 54 ELSE 42
        flags == IF protocol = 6 THEN 16 ELSE 0
    IN  { Frame(len, 5, protocol, x_ip, x_port, y_ip, y_port, flags),
          Frame(len, 5, protocol, y_ip, y_port, x_ip, x_port, flags) }

DirectionFrames ==
    BothDirections(17, HostIp, 5353, PeerIp, 53)
        \cup BothDirections(17, HostIp, 5353, <<192, 168, 1, 1>>, 53)
        \cup BothDirections(6, HostIp, 12345, <<192, 168, 1, 1>>, 443)
        \cup BothDirections(17, <<127, 0, 0, 1>>, 5353, <<127, 0, 0, 1>>, 53)
        \cup BothDirections(17, PeerIp, 5353, <<1, 1, 1, 1>>, 53)

NoBudget == [frames |-> 0, calls |-> 0, advances |-> 0]

NoPlatformCall ==
    [called |-> FALSE, ss |-> Ok(<< >>), netstat |-> Ok(<< >>), platform |-> << >>]

\* A frame arrives at the capture.
Capture(data) ==
    /\ ~monitor_panicked
    /\ budget.frames < MaxFrames
    /\ capture' = Append(capture, data)
    /\ budget' = [budget EXCEPT !.frames = @ + 1]
    /\ UNCHANGED <<connections, filter_localhost, last_packet_check, now_ms,
                   returned, monitor_panicked, platform_last, tcpVars,
                   mergeVars, reVars, appVars, thrVars>>

\* A burst of one more frame than a poll reads arrives at the empty capture.
CaptureBurst(data) ==
    /\ ~monitor_panicked
    /\ budget.frames < MaxFrames
    /\ capture = << >>
    /\ capture' = [i \in 1..(POLL_BATCH + 1) |-> data]
    /\ budget' = [budget EXCEPT !.frames = @ + 1]
    /\ UNCHANGED <<connections, filter_localhost, last_packet_check, now_ms,
                   returned, monitor_panicked, platform_last, tcpVars,
                   mergeVars, reVars, appVars, thrVars>>

\* Time passes.
Advance(ms) ==
    /\ ~monitor_panicked
    /\ budget.advances < MaxAdvances
    /\ now_ms' = now_ms + ms
    /\ budget' = [budget EXCEPT !.advances = @ + 1]
    /\ UNCHANGED <<connections, filter_localhost, last_packet_check, capture,
                   returned, monitor_panicked, platform_last, tcpVars,
                   mergeVars, reVars, appVars, thrVars>>

\* NetworkMonitor::get_connections: process_packets (throttled; the capture
\* yields `reads` frames before next_packet returns Err), the platform
\* sources, the packet-derived entries, the sort and the localhost filter.
\* A panic while a frame is processed unwinds out of the call.
GetConnections(reads, ss_out, netstat_out, local_ip) ==
    LET polled == now_ms - last_packet_check >= POLL_INTERVAL_MS
        frames == IF polled THEN SubSeq(capture, 1, poll_batch(reads)) ELSE << >>
        drained == drain(connections, frames, now_ms, 0)
    IN  /\ ~monitor_panicked
        /\ budget.calls < MaxCalls
        /\ reads <= Len(capture)
        /\ ~polled => reads = 0
        /\ budget' = [budget EXCEPT !.calls = @ + 1]
        /\ last_packet_check' = IF polled THEN now_ms ELSE last_packet_check
        /\ capture' = SubSeq(capture, drained.consumed + 1, Len(capture))
        /\ connections' = drained.connections
        /\ monitor_panicked' = drained.panicked
        /\ IF drained.panicked
           THEN UNCHANGED <<returned, platform_last>>
           ELSE /\ \E order \in IterationOrders(DOMAIN drained.connections) :
                       returned' = get_connections(drained.connections, order, ss_out,
                                                   netstat_out, local_ip,
                                                   filter_localhost, now_ms)
                /\ platform_last' =
                       [called |-> TRUE, ss |-> ss_out, netstat |-> netstat_out,
                        platform |-> get_platform_connections(ss_out, netstat_out,
                                                              local_ip, now_ms)]
        /\ UNCHANGED <<filter_localhost, now_ms, tcpVars, mergeVars, reVars,
                   appVars, thrVars>>

-----------------------------------------------------------------------------
(* types.rs: CryptoFrameReassembler                                         *)

\* max_buffer_size: 64 * 1024 in the source.  Fragment data is modelled byte
\* by byte, so the cap is scaled down: one modelled byte stands for 8 KiB
\* (32 KiB = 4, 40 KiB = 5, 64 KiB = 8).
MAX_BUFFER_SIZE == 8

\* CryptoFrameReassembler::new.  (last_update only feeds is_stale.)
CryptoFrameReassembler_new ==
    [fragments |-> EmptyMap, contiguous_offset |-> 0,
     has_complete_tls_info |-> FALSE, cached_tls_info |-> None,
     max_buffer_size |-> MAX_BUFFER_SIZE, current_buffer_size |-> 0]

\* The keys of a BTreeMap in iteration order (ascending).
RECURSIVE btree_keys(_)
btree_keys(keys) ==
    IF keys = {}
    THEN << >>
    ELSE LET least == CHOOSE k \in keys : \A other \in keys : k <= other
         IN  <<least>> \o btree_keys(keys \ {least})

\* The loop of add_fragment over the stored fragments: "duplicate" or
\* "overlap" at the first fragment that matches, "none" when none does;
\* overflow tells whether an addition evaluated on the way overflowed.
RECURSIVE scan_fragments(_, _, _, _)
scan_fragments(fragments, keys, offset, data_end) ==
    IF keys = << >>
    THEN [verdict |-> "none", overflow |-> FALSE]
    ELSE LET frag_offset == Head(keys)
             frag_len == Len(fragments[frag_offset])
             frag_end == u64_add(frag_offset, frag_len)
             wraps == u64_add_overflows(frag_offset, frag_len)
         IN  IF offset = frag_offset /\ data_end = frag_end
             THEN [verdict |-> "duplicate", overflow |-> wraps]
             ELSE IF offset < frag_end /\ data_end > frag_offset
             THEN [verdict |-> "overlap", overflow |-> wraps]
             ELSE LET rest == scan_fragments(fragments, Tail(keys), offset, data_end)
                  IN  [rest EXCEPT !.overflow = @ \/ wraps]

\* The loop of update_contiguous_offset: the new value of `current`, and
\* whether an addition evaluated on the way overflowed.
RECURSIVE advance_contiguous(_, _, _)
advance_contiguous(fragments, keys, current) ==
    IF keys = << >>
    THEN [current |-> current, overflow |-> FALSE]
    ELSE LET offset == Head(keys)
             len == Len(fragments[offset])
         IN  IF offset <= current
             THEN LET fragment_end == u64_add(offset, len)
                      next == IF fragment_end > current THEN fragment_end ELSE current
                      rest == advance_contiguous(fragments, Tail(keys), next)
                  IN  [rest EXCEPT !.overflow = @ \/ u64_add_overflows(offset, len)]
             ELSE [current |-> current, overflow |-> FALSE]

update_contiguous_offset(r) ==
    [r EXCEPT !.contiguous_offset =
        advance_contiguous(r.fragments, btree_keys(DOMAIN r.fragments), @).current]

\* fragments.insert(offset, data): the entry at the key is added or replaced.
btree_insert(fragments, offset, data) ==
    [k \in DOMAIN fragments \cup {offset} |->
        IF k = offset THEN data ELSE fragments[k]]

\* Insert that refuses a key already present.
add_fragment_insert_keep(r, offset, data) ==
    IF offset \in DOMAIN r.fragments
    THEN r
    ELSE update_contiguous_offset(
             [r EXCEPT !.current_buffer_size = @ + Len(data),
                       !.fragments = btree_insert(@, offset, data)])

\* Insert that does not account for the bytes.
add_fragment_insert_uncounted(r, offset, data) ==
    update_contiguous_offset([r EXCEPT !.fragments = btree_insert(@, offset, data)])

\* Insert that restarts the contiguous offset from zero.
add_fragment_insert_restart(r, offset, data) ==
    update_contiguous_offset(
        [r EXCEPT !.current_buffer_size = @ + Len(data),
                  !.fragments = btree_insert(@, offset, data),
                  !.contiguous_offset = 0])

\* Add the fragment; try to advance contiguous offset.
add_fragment_insert(r, offset, data) ==
    update_contiguous_offset(
        [r EXCEPT !.current_buffer_size = @ + Len(data),
                  !.fragments = btree_insert(@, offset, data)])

\* Limit check that lets everything through.
exceeds_buffer_limit_never(r, data) == FALSE

\* Limit check that also refuses a fragment filling the buffer exactly.
exceeds_buffer_limit_inclusive(r, data) ==
    r.current_buffer_size + Len(data) >= r.max_buffer_size

\* Check if this would exceed our buffer limit
exceeds_buffer_limit(r, data) ==
    r.current_buffer_size + Len(data) > r.max_buffer_size

\* add_fragment: the reassembler afterwards and the Result returned.
add_fragment(r, offset, data) ==
    IF exceeds_buffer_limit(r, data)
    THEN [r |-> r, result |-> "Err"]
    ELSE LET data_end == u64_add(offset, Len(data))
             found == scan_fragments(r.fragments, btree_keys(DOMAIN r.fragments),
                                     offset, data_end)
         IN  IF found.verdict = "none"
             THEN [r |-> add_fragment_insert(r, offset, data), result |-> "Ok"]
             ELSE [r |-> r, result |-> "Ok"]

\* Whether a u64 addition evaluated by add_fragment overflows (a build with
\* overflow checks panics there, one without wraps).
add_fragment_overflows(r, offset, data) ==
    /\ ~exceeds_buffer_limit(r, data)
    /\ LET data_end == u64_add(offset, Len(data))
           keys == btree_keys(DOMAIN r.fragments)
           found == scan_fragments(r.fragments, keys, offset, data_end)
           stored == btree_insert(r.fragments, offset, data)
       IN  \/ u64_add_overflows(offset, Len(data))
           \/ found.overflow
           \/ /\ found.verdict = "none"
              /\ advance_contiguous(stored, btree_keys(DOMAIN stored),
                                    r.contiguous_offset).overflow

\* The loop of get_contiguous_data.
RECURSIVE collect_contiguous(_, _, _, _, _)
collect_contiguous(fragments, keys, contiguous_offset, current_offset, result) ==
    IF keys = << >>
    THEN result
    ELSE LET offset == Head(keys)
             data == fragments[offset]
             take == offset <= current_offset /\ current_offset - offset < Len(data)
             skip == current_offset - offset
             result1 == IF take THEN result \o SubSeq(data, skip + 1, Len(data))
                        ELSE result
             current1 == IF take THEN u64_add(offset, Len(data)) ELSE current_offset
         IN  IF current1 >= contiguous_offset
             THEN result1
             ELSE collect_contiguous(fragments, Tail(keys), contiguous_offset,
                                     current1, result1)

get_contiguous_data(r) ==
    IF r.contiguous_offset = 0
    THEN None
    ELSE LET result == collect_contiguous(r.fragments, btree_keys(DOMAIN r.fragments),
                                          r.contiguous_offset, 0, << >>)
         IN  IF result = << >> THEN None ELSE Some(result)

\* Clear that also forgets the TLS info.
clear_fragments_all(r) ==
    [r EXCEPT !.fragments = EmptyMap, !.current_buffer_size = 0,
              !.has_complete_tls_info = FALSE, !.cached_tls_info = None]

clear_fragments(r) ==
    [r EXCEPT !.fragments = EmptyMap, !.current_buffer_size = 0]

set_complete_tls_info(r, tls_info) ==
    [r EXCEPT !.has_complete_tls_info = TRUE, !.cached_tls_info = Some(tls_info)]

get_cached_tls_info(r) ==
    IF r.has_complete_tls_info THEN r.cached_tls_info ELSE None

-----------------------------------------------------------------------------
(* One reassembler driven by its callers.                                   *)

MaxAdds == 3          \* add_fragment calls in a run
MaxLen == 5           \* fragment lengths 0..MaxLen
MaxOffset == 3        \* fragment offsets 0..MaxOffset, and one that ends at U64_MAX

\* Fragment data: `len` bytes, all of value `byte`.
Data(len, byte) == [i \in 1..len |-> byte]

\* The n-th add_fragment call carries bytes of value n, so bytes written by
\* different calls differ.
FragmentData == { Data(len, byte) : len \in 0..MaxLen, byte \in 1..MaxAdds }

FragmentOffsets == (0..MaxOffset) \cup {U64_MAX - 1}

TlsInfos == {"tls-a"}

\* History: the Result of the last add_fragment, whether its data was larger
\* than the room left in the buffer, the add_fragment calls made, and whether
\* set_complete_tls_info has been called.
NoReasmCall == [result |-> "none", too_large |-> FALSE, adds |-> 0, tls_set |-> FALSE]

\* add_fragment(offset, data) is called.
AddFragment(offset, data) ==
    /\ ~reasm_panicked
    /\ reasm_last.adds < MaxAdds
    /\ LET too_large == Len(data) > reasm.max_buffer_size - reasm.current_buffer_size
       IN  \/ /\ add_fragment_overflows(reasm, offset, data)
              /\ reasm_panicked' = TRUE
              /\ reasm_last' = [reasm_last EXCEPT !.result = "panic",
                                                  !.too_large = too_large,
                                                  !.adds = @ + 1]
              /\ UNCHANGED reasm
           \/ /\ reasm' = add_fragment(reasm, offset, data).r
              /\ reasm_last' = [reasm_last EXCEPT
                                   !.result = add_fragment(reasm, offset, data).result,
                                   !.too_large = too_large,
                                   !.adds = @ + 1]
              /\ UNCHANGED reasm_panicked
    /\ UNCHANGED <<tcpVars, mergeVars, monVars, appVars, thrVars>>

ClearFragments ==
    /\ ~reasm_panicked
    /\ reasm' = clear_fragments(reasm)
    /\ UNCHANGED <<reasm_panicked, reasm_last, tcpVars, mergeVars, monVars, appVars, thrVars>>

SetCompleteTlsInfo(tls_info) ==
    /\ ~reasm_panicked
    /\ reasm' = set_complete_tls_info(reasm, tls_info)
    /\ reasm_last' = [reasm_last EXCEPT !.tls_set = TRUE]
    /\ UNCHANGED <<reasm_panicked, tcpVars, mergeVars, monVars, appVars, thrVars>>

-----------------------------------------------------------------------------
(* app.rs: App (the connection list, its order and the selection)           *)

\* App::new: no monitor, no connections, nothing selected, no order assigned.
App_new ==
    [network_monitor |-> None, connections |-> << >>,
     selected_connection |-> None, selected_connection_idx |-> 0,
     connection_order |-> EmptyMap, next_order_index |-> 0]

\* format!("{:?}-{}-{}-{:?}", protocol, local_addr, remote_addr, state): the
\* text determines the four values and is determined by them.
get_connection_key(c) == <<c.protocol, c.local_addr, c.remote_addr, c.state>>

\* "Update connection order": each key not yet in connection_order gets the
\* next index, in the order of the list.
RECURSIVE assign_order(_, _)
assign_order(a, list) ==
    IF list = << >>
    THEN a
    ELSE LET key == get_connection_key(Head(list))
             a1 == IF key \in DOMAIN a.connection_order
                   THEN a
                   ELSE [a EXCEPT
                            !.connection_order =
                                [k \in DOMAIN @ \cup {key} |->
                                    IF k = key THEN a.next_order_index ELSE @[k]],
                            !.next_order_index = @ + 1]
         IN  assign_order(a1, Tail(list))

\* new_connections.sort_by(order of the key): a stable sort, ascending.
RECURSIVE insert_by_order(_, _, _)
insert_by_order(sorted, c, order) ==
    IF sorted = << >>
    THEN <<c>>
    ELSE IF order[get_connection_key(Head(sorted))] <= order[get_connection_key(c)]
    THEN <<Head(sorted)>> \o insert_by_order(Tail(sorted), c, order)
    ELSE <<c>> \o sorted

RECURSIVE sort_by_order(_, _)
sort_by_order(list, order) ==
    IF list = << >>
    THEN << >>
    ELSE insert_by_order(sort_by_order(SubSeq(list, 1, Len(list) - 1), order),
                         list[Len(list)], order)

\* find_connection_index: the first index (from 0) whose key equals the key
\* of the selected connection.
find_connection_index(list, selected) ==
    LET hits == { i \in DOMAIN list :
                      get_connection_key(list[i]) = get_connection_key(selected) }
    IN  IF hits = {}
        THEN None
        ELSE Some((CHOOSE i \in hits : \A j \in hits : i <= j) - 1)

\* The part on_tick and refresh share: order the new list, store it, and
\* restore the selection when something was selected.
update_connections(a, new_connections) ==
    LET selected == a.selected_connection
        ordered == assign_order(a, new_connections)
        sorted == sort_by_order(new_connections, ordered.connection_order)
        shown == [ordered EXCEPT !.connections = sorted]
        idx == find_connection_index(sorted, selected[1])
    IN  IF selected = None
        THEN shown
        ELSE IF idx # None
        THEN [shown EXCEPT !.selected_connection_idx = idx[1],
                           !.selected_connection = Some(sorted[idx[1] + 1])]
        ELSE IF sorted # << >>
        THEN [shown EXCEPT !.selected_connection_idx = 0,
                           !.selected_connection = Some(sorted[1])]
        ELSE [shown EXCEPT !.selected_connection_idx = 0,
                           !.selected_connection = None]

refresh(a, new_connections) ==
    IF a.network_monitor = None THEN a ELSE update_connections(a, new_connections)

\* on_tick: as refresh, and the first connection is selected when nothing was.
on_tick(a, new_connections) ==
    IF a.network_monitor = None
    THEN a
    ELSE LET updated == update_connections(a, new_connections)
         IN  IF a.selected_connection = None /\ updated.connections # << >>
             THEN [updated EXCEPT !.selected_connection_idx = 0,
                                  !.selected_connection = Some(updated.connections[1])]
             ELSE updated

\* start_capture: the monitor is created and its first list stored as it is.
start_capture(a, new_connections) ==
    [a EXCEPT !.connections = new_connections, !.network_monitor = Some("monitor")]

\* A Down key that moves the index and leaves selected_connection alone.
key_down_index_only(a) ==
    IF a.connections = << >>
    THEN a
    ELSE [a EXCEPT !.selected_connection_idx = (@ + 1) % Len(a.connections)]

\* handle_overview_keys, KeyCode::Down and KeyCode::Up.
key_down(a) ==
    IF a.connections = << >>
    THEN a
    ELSE LET idx == (a.selected_connection_idx + 1) % Len(a.connections)
         IN  [a EXCEPT !.selected_connection = Some(a.connections[idx + 1]),
                       !.selected_connection_idx = idx]

key_up(a) ==
    IF a.connections = << >>
    THEN a
    ELSE LET idx == IF a.selected_connection_idx = 0
                    THEN Len(a.connections) - 1
                    ELSE a.selected_connection_idx - 1
         IN  [a EXCEPT !.selected_connection = Some(a.connections[idx + 1]),
                       !.selected_connection_idx = idx]

-----------------------------------------------------------------------------
(* The App driven by ticks, refreshes and the arrow keys.                   *)

MaxTicks == 3         \* on_tick and refresh calls in a run

\* Four flows of the host, as get_connections reports them.
Flow(port, state) ==
    MonitorConnection_new("TCP", SocketAddr(HostIp, port), SocketAddr(PeerIp, 443),
                          state, INITIAL_CHECK_AGE_MS)

FlowA == Flow(1001, "Established")
FlowAClosing == Flow(1001, "TimeWait")
FlowB == Flow(1002, "Established")
FlowC == Flow(1003, "Established")
FlowD == Flow(1004, "Established")

\* Lists get_connections returns on successive calls.
Listings ==
    { << >>, <<FlowA, FlowB>>, <<FlowA, FlowB, FlowC>>, <<FlowD, FlowA, FlowB>>,
      <<FlowB, FlowA>>, <<FlowAClosing, FlowB>> }

\* The flow identity of a connection: protocol, local and remote address.
flow_of(c) == conn_key(c.protocol, c.local_addr, c.remote_addr)

\* History: the flows of a list not yet in `seen`, appended in list order.
RECURSIVE observe(_, _)
observe(seen, list) ==
    IF list = << >>
    THEN seen
    ELSE LET f == flow_of(Head(list))
         IN  observe(IF \E i \in DOMAIN seen : seen[i] = f THEN seen
                     ELSE Append(seen, f),
                     Tail(list))

\* History: on_tick and refresh calls made, and the flows in the order in
\* which those calls first received them.
NoAppHistory == [ticks |-> 0, first_seen |-> << >>]

StartCapture(new_connections) ==
    /\ app_state.network_monitor = None
    /\ app_state' = start_capture(app_state, new_connections)
    /\ UNCHANGED <<app_hist, tcpVars, mergeVars, monVars, reVars, thrVars>>

OnTick(new_connections) ==
    /\ app_hist.ticks < MaxTicks
    /\ app_state' = on_tick(app_state, new_connections)
    /\ app_hist' = [ticks |-> app_hist.ticks + 1,
                    first_seen |-> IF app_state.network_monitor = None
                                   THEN app_hist.first_seen
                                   ELSE observe(app_hist.first_seen, new_connections)]
    /\ UNCHANGED <<tcpVars, mergeVars, monVars, reVars, thrVars>>

Refresh(new_connections) ==
    /\ app_hist.ticks < MaxTicks
    /\ app_state' = refresh(app_state, new_connections)
    /\ app_hist' = [ticks |-> app_hist.ticks + 1,
                    first_seen |-> IF app_state.network_monitor = None
                                   THEN app_hist.first_seen
                                   ELSE observe(app_hist.first_seen, new_connections)]
    /\ UNCHANGED <<tcpVars, mergeVars, monVars, reVars, thrVars>>

KeyDown ==
    /\ app_state' = key_down(app_state)
    /\ UNCHANGED <<app_hist, tcpVars, mergeVars, monVars, reVars, thrVars>>

KeyUp ==
    /\ app_state' = key_up(app_state)
    /\ UNCHANGED <<app_hist, tcpVars, mergeVars, monVars, reVars, thrVars>>

-----------------------------------------------------------------------------
(* app.rs: the background thread of start_capture and the consumer          *)

\* Mutex::new(monitor): nobody holds the guard, the mutex is not poisoned.
Mutex_new == [holder |-> "none", poisoned |-> FALSE]

\* A mutex whose lock() returns at once, whoever holds the guard.
lock_returns_unguarded(m) == TRUE

\* Mutex::lock returns only when no guard is alive.
lock_returns(m) == m.holder = "none"

\* The guard is dropped: at drop(monitor), at the end of the scope, or while
\* a panic unwinds, which poisons the mutex.
drop_guard(m, panicking) ==
    [holder |-> "none", poisoned |-> m.poisoned \/ panicking]

\* NetworkMonitor::get_connections ends in Ok (process_packets and
\* get_platform_connections end in Ok(())) or panics while a frame is
\* processed.
GetConnectionsOutcomes == {"ok", "panic"}

\* Polls the monitor has completed, counted up to MaxPolls.
MaxPolls == 4

counted(n) == IF n < MaxPolls THEN n + 1 ELSE n

\* App::start_capture: the first get_connections on the monitor the consumer
\* still owns, then the monitor moves into the Arc<Mutex<..>> and the thread
\* is spawned.
SpawnCapture(outcome) ==
    /\ ui_pc = "created"
    /\ IF outcome = "ok"
       THEN /\ polls' = counted(polls)
            /\ consumer_connections' = counted(polls)
            /\ bg_pc' = "lock"
            /\ ui_pc' = "idle"
       ELSE /\ ui_pc' = "panicked"
            /\ UNCHANGED <<polls, consumer_connections, bg_pc>>
    /\ UNCHANGED <<monitor_mutex, connections_update, tcpVars, mergeVars, monVars,
                   reVars, appVars>>

\* The thread: monitor_clone.lock().unwrap().
BgLock ==
    /\ bg_pc = "lock"
    /\ lock_returns(monitor_mutex)
    /\ IF monitor_mutex.poisoned
       THEN bg_pc' = "panicked" /\ UNCHANGED monitor_mutex
       ELSE /\ bg_pc' = "get_connections"
            /\ monitor_mutex' = [monitor_mutex EXCEPT !.holder = "background"]
    /\ UNCHANGED <<ui_pc, polls, connections_update, consumer_connections, tcpVars,
                   mergeVars, monVars, reVars, appVars>>

\* The thread: monitor.get_connections()?.
BgGetConnections(outcome) ==
    /\ bg_pc = "get_connections"
    /\ IF outcome = "ok"
       THEN /\ polls' = counted(polls)
            /\ bg_pc' = "publish"
            /\ UNCHANGED monitor_mutex
       ELSE /\ bg_pc' = "panicked"
            /\ monitor_mutex' = drop_guard(monitor_mutex, TRUE)
            /\ UNCHANGED polls
    /\ UNCHANGED <<ui_pc, connections_update, consumer_connections, tcpVars,
                   mergeVars, monVars, reVars, appVars>>

\* The thread: *connections = new_connections; drop(connections);
\* drop(monitor).
BgPublish ==
    /\ bg_pc = "publish"
    /\ connections_update' = polls
    /\ monitor_mutex' = drop_guard(monitor_mutex, FALSE)
    /\ bg_pc' = "sleep"
    /\ UNCHANGED <<ui_pc, polls, consumer_connections, tcpVars, mergeVars, monVars,
                   reVars, appVars>>

\* The thread: thread::sleep(1000 ms), then the next turn of the loop.
BgSleep ==
    /\ bg_pc = "sleep"
    /\ bg_pc' = "lock"
    /\ UNCHANGED <<monitor_mutex, ui_pc, polls, connections_update,
                   consumer_connections, tcpVars, mergeVars, monVars, reVars,
                   appVars>>

BgStep == BgLock \/ (\E outcome \in GetConnectionsOutcomes : BgGetConnections(outcome))
              \/ BgPublish \/ BgSleep

\* The consumer enters on_tick or refresh and reaches the lock() call.
UiRequest ==
    /\ ui_pc = "idle"
    /\ ui_pc' = "lock"
    /\ UNCHANGED <<monitor_mutex, bg_pc, polls, connections_update,
                   consumer_connections, tcpVars, mergeVars, monVars, reVars,
                   appVars>>

\* The consumer, in on_tick or refresh: monitor_arc.lock().unwrap().
UiLock ==
    /\ ui_pc = "lock"
    /\ lock_returns(monitor_mutex)
    /\ IF monitor_mutex.poisoned
       THEN ui_pc' = "panicked" /\ UNCHANGED monitor_mutex
       ELSE /\ ui_pc' = "get_connections"
            /\ monitor_mutex' = [monitor_mutex EXCEPT !.holder = "consumer"]
    /\ UNCHANGED <<bg_pc, polls, connections_update, consumer_connections, tcpVars,
                   mergeVars, monVars, reVars, appVars>>

\* The consumer: monitor.get_connections()?; drop(monitor); the list becomes
\* App.connections.
UiGetConnections(outcome) ==
    /\ ui_pc = "get_connections"
    /\ IF outcome = "ok"
       THEN /\ polls' = counted(polls)
            /\ consumer_connections' = counted(polls)
            /\ monitor_mutex' = drop_guard(monitor_mutex, FALSE)
            /\ ui_pc' = "idle"
       ELSE /\ ui_pc' = "panicked"
            /\ monitor_mutex' = drop_guard(monitor_mutex, TRUE)
            /\ UNCHANGED <<polls, consumer_connections>>
    /\ UNCHANGED <<bg_pc, connections_update, tcpVars, mergeVars, monVars, reVars,
                   appVars>>

\* The consumer quits: handle_key returns Some(Action::Quit).
Quit ==
    /\ ui_pc = "idle"
    /\ ui_pc' = "quit"
    /\ UNCHANGED <<monitor_mutex, bg_pc, polls, connections_update,
                   consumer_connections, tcpVars, mergeVars, monVars, reVars,
                   appVars>>

-----------------------------------------------------------------------------
(* Specifications                                                           *)

InitTcp ==
    /\ tcp_state \in TcpState
    /\ tcp_pos = IF tcp_state = "Unknown" THEN 0 ELSE OffScript
    /\ tcp_visited = << >>
    /\ tcp_last = NoCall
    /\ conn = NoConn /\ clock = 0 /\ panicked = FALSE
    /\ tally = NoTally /\ merge_last = NoOp
    /\ connections = EmptyMap /\ filter_localhost = FALSE
    /\ last_packet_check = 0 /\ now_ms = INITIAL_CHECK_AGE_MS
    /\ capture = << >> /\ returned = << >>
    /\ monitor_panicked = FALSE /\ budget = NoBudget
    /\ platform_last = NoPlatformCall
    /\ monitor_mutex = Mutex_new /\ bg_pc = "not_spawned" /\ ui_pc = "created"
    /\ polls = 0 /\ connections_update = 0 /\ consumer_connections = 0
    /\ reasm = CryptoFrameReassembler_new
    /\ reasm_panicked = FALSE /\ reasm_last = NoReasmCall
    /\ app_state = App_new /\ app_hist = NoAppHistory

NextTcp ==
    \E flags \in TcpFlags, is_outgoing \in BOOLEAN : TcpSegment(flags, is_outgoing)

SpecTcp == InitTcp /\ [][NextTcp]_vars

InitMerge ==
    /\ conn = NoConn /\ clock = 0 /\ panicked = FALSE
    /\ tally = NoTally /\ merge_last = NoOp
    /\ tcp_state = "Unknown" /\ tcp_pos = OffScript
    /\ tcp_visited = << >> /\ tcp_last = NoCall
    /\ connections = EmptyMap /\ filter_localhost = FALSE
    /\ last_packet_check = 0 /\ now_ms = INITIAL_CHECK_AGE_MS
    /\ capture = << >> /\ returned = << >>
    /\ monitor_panicked = FALSE /\ budget = NoBudget
    /\ platform_last = NoPlatformCall
    /\ monitor_mutex = Mutex_new /\ bg_pc = "not_spawned" /\ ui_pc = "created"
    /\ polls = 0 /\ connections_update = 0 /\ consumer_connections = 0
    /\ reasm = CryptoFrameReassembler_new
    /\ reasm_panicked = FALSE /\ reasm_last = NoReasmCall
    /\ app_state = App_new /\ app_hist = NoAppHistory

\* The states a Connection is constructed with.
NewConnectionStates == { Tcp("Established"), Tcp("Unknown"), Udp }

NextMerge ==
    \/ Tick
    \/ \E parsed \in ParsedPackets : CreateFromPacket(parsed)
    \/ \E state \in NewConnectionStates : NewConnection(state)
    \/ \E parsed \in ParsedPackets : MergePacket(parsed, MaxPackets)
    \/ \E secondary \in ValidSecondaries : MergeConnections(secondary)

SpecMerge == InitMerge /\ [][NextMerge]_vars

NextCounters ==
    \/ \E parsed \in SizedPackets : CreateFromPacket(parsed)
    \/ \E parsed \in SizedPackets : MergePacket(parsed, MaxSized)
    \/ \E secondary \in SizedSecondaries : MergeConnections(secondary)

SpecCounters == InitMerge /\ [][NextCounters]_vars

\* NetworkMonitor::new: an empty map, last_packet_check 200 ms in the past.
InitMonitor ==
    /\ connections = EmptyMap /\ filter_localhost \in BOOLEAN
    /\ last_packet_check = 0 /\ now_ms = INITIAL_CHECK_AGE_MS
    /\ capture = << >> /\ returned = << >>
    /\ monitor_panicked = FALSE /\ budget = NoBudget
    /\ platform_last = NoPlatformCall
    /\ monitor_mutex = Mutex_new /\ bg_pc = "not_spawned" /\ ui_pc = "created"
    /\ polls = 0 /\ connections_update = 0 /\ consumer_connections = 0
    /\ reasm = CryptoFrameReassembler_new
    /\ reasm_panicked = FALSE /\ reasm_last = NoReasmCall
    /\ app_state = App_new /\ app_hist = NoAppHistory
    /\ conn = NoConn /\ clock = 0 /\ panicked = FALSE
    /\ tally = NoTally /\ merge_last = NoOp
    /\ tcp_state = "Unknown" /\ tcp_pos = OffScript
    /\ tcp_visited = << >> /\ tcp_last = NoCall

NextMonitor ==
    \/ \E data \in Frames : Capture(data)
    \/ \E ms \in ClockSteps : Advance(ms)
    \/ \E reads \in 0..MaxFrames, found \in Snapshots :
            GetConnections(reads, found.ss, found.netstat, found.local_ip)

SpecMonitor == InitMonitor /\ [][NextMonitor]_vars

\* The monitor reading the socket tables of SocketTables.
NextSockets ==
    \/ \E data \in Frames : Capture(data)
    \/ \E ms \in ClockSteps : Advance(ms)
    \/ \E reads \in 0..MaxFrames, found \in SocketTables :
            GetConnections(reads, found.ss, found.netstat, found.local_ip)

SpecSockets == InitMonitor /\ [][NextSockets]_vars

\* The monitor fusing the packets of FusionFrames with the socket tables of
\* FusionTables, over clock steps of 100 ms and of 301 s.
NextFusion ==
    \/ \E data \in FusionFrames : Capture(data)
    \/ \E ms \in { 100, 301000 } : Advance(ms)
    \/ \E reads \in 0..MaxFrames, found \in FusionTables :
            GetConnections(reads, found.ss, found.netstat, found.local_ip)

SpecFusion == InitMonitor /\ [][NextFusion]_vars

\* The monitor over every combination of the two commands' outcomes.
NextSources ==
    \/ \E data \in DatagramFrames : Capture(data)
    \/ \E ms \in ClockSteps : Advance(ms)
    \/ \E reads \in 0..MaxFrames, found \in SourceOutcomes :
            GetConnections(reads, found.ss, found.netstat, found.local_ip)

SpecSources == InitMonitor /\ [][NextSources]_vars

\* The monitor fed with the frames of PolicyFrames.
NextPolicy ==
    \/ \E data \in PolicyFrames : Capture(data)
    \/ Advance(POLL_INTERVAL_MS)
    \/ \E reads \in 0..MaxFrames, found \in OtherSocketTables :
            GetConnections(reads, found.ss, found.netstat, found.local_ip)

SpecPolicy == InitMonitor /\ [][NextPolicy]_vars

\* The monitor polled while single frames and bursts arrive; the capture
\* yields nothing, one frame, a whole batch or more before a read fails.
NextPolling ==
    \/ \E data \in DatagramFrames : Capture(data)
    \/ \E data \in DatagramFrames : CaptureBurst(data)
    \/ \E ms \in { 50, 100 } : Advance(ms)
    \/ \E reads \in { 0, 1, POLL_BATCH, POLL_BATCH + 1 }, found \in OtherSocketTables :
            GetConnections(reads, found.ss, found.netstat, found.local_ip)

SpecPolling == InitMonitor /\ [][NextPolling]_vars

\* The monitor fed with the frames of ShortFrames.
NextFrames ==
    \/ \E data \in ShortFrames : Capture(data)
    \/ \E ms \in ClockSteps : Advance(ms)
    \/ \E reads \in 0..MaxFrames, found \in OtherSocketTables :
            GetConnections(reads, found.ss, found.netstat, found.local_ip)

SpecFrames == InitMonitor /\ [][NextFrames]_vars

\* The monitor fed with both directions of flows (DirectionFrames).
NextDirections ==
    \/ \E data \in DirectionFrames : Capture(data)
    \/ \E ms \in ClockSteps : Advance(ms)
    \/ \E reads \in 0..MaxFrames, found \in OtherSocketTables :
            GetConnections(reads, found.ss, found.netstat, found.local_ip)

SpecDirections == InitMonitor /\ [][NextDirections]_vars

\* CryptoFrameReassembler::new.
InitReassembler ==
    /\ reasm = CryptoFrameReassembler_new
    /\ reasm_panicked = FALSE /\ reasm_last = NoReasmCall
    /\ app_state = App_new /\ app_hist = NoAppHistory
    /\ conn = NoConn /\ clock = 0 /\ panicked = FALSE
    /\ tally = NoTally /\ merge_last = NoOp
    /\ tcp_state = "Unknown" /\ tcp_pos = OffScript
    /\ tcp_visited = << >> /\ tcp_last = NoCall
    /\ connections = EmptyMap /\ filter_localhost = FALSE
    /\ last_packet_check = 0 /\ now_ms = INITIAL_CHECK_AGE_MS
    /\ capture = << >> /\ returned = << >>
    /\ monitor_panicked = FALSE /\ budget = NoBudget
    /\ platform_last = NoPlatformCall
    /\ monitor_mutex = Mutex_new /\ bg_pc = "not_spawned" /\ ui_pc = "created"
    /\ polls = 0 /\ connections_update = 0 /\ consumer_connections = 0

NextReassembler ==
    \/ \E offset \in FragmentOffsets, len \in 0..MaxLen :
            AddFragment(offset, Data(len, reasm_last.adds + 1))
    \/ ClearFragments
    \/ \E tls_info \in TlsInfos : SetCompleteTlsInfo(tls_info)

SpecReassembler == InitReassembler /\ [][NextReassembler]_vars

\* App::new.
InitApp ==
    /\ app_state = App_new /\ app_hist = NoAppHistory
    /\ reasm = CryptoFrameReassembler_new
    /\ reasm_panicked = FALSE /\ reasm_last = NoReasmCall
    /\ conn = NoConn /\ clock = 0 /\ panicked = FALSE
    /\ tally = NoTally /\ merge_last = NoOp
    /\ tcp_state = "Unknown" /\ tcp_pos = OffScript
    /\ tcp_visited = << >> /\ tcp_last = NoCall
    /\ connections = EmptyMap /\ filter_localhost = FALSE
    /\ last_packet_check = 0 /\ now_ms = INITIAL_CHECK_AGE_MS
    /\ capture = << >> /\ returned = << >>
    /\ monitor_panicked = FALSE /\ budget = NoBudget
    /\ platform_last = NoPlatformCall
    /\ monitor_mutex = Mutex_new /\ bg_pc = "not_spawned" /\ ui_pc = "created"
    /\ polls = 0 /\ connections_update = 0 /\ consumer_connections = 0

NextApp ==
    \/ \E new_connections \in Listings : StartCapture(new_connections)
    \/ \E new_connections \in Listings : OnTick(new_connections)
    \/ \E new_connections \in Listings : Refresh(new_connections)
    \/ KeyDown
    \/ KeyUp

SpecApp == InitApp /\ [][NextApp]_vars

\* The consumer and the background thread sharing the monitor, from the
\* App as App::new leaves it.
NextThreads ==
    \/ \E outcome \in GetConnectionsOutcomes : SpawnCapture(outcome)
    \/ BgLock
    \/ \E outcome \in GetConnectionsOutcomes : BgGetConnections(outcome)
    \/ BgPublish
    \/ BgSleep
    \/ UiRequest
    \/ UiLock
    \/ \E outcome \in GetConnectionsOutcomes : UiGetConnections(outcome)
    \/ Quit

SpecThreads == InitApp /\ [][NextThreads]_vars

\* The scheduler runs the background thread whenever it can take a step.
SpecThreadsFair == SpecThreads /\ WF_vars(BgStep)

\* As SpecThreadsFair, and a consumer blocked in lock() gets the guard when
\* the mutex is free again and again: the thread sleeps for a second after
\* each release.
SpecThreadsLive == SpecThreads /\ WF_vars(BgStep) /\ SF_vars(UiLock)


-----------------------------------------------------------------------------
(* Properties of the TCP state engine.                                      *)

\* The transition table of the specification (section 4.2), row by row.  The
\* flag column is read as: SYN = SYN alone, SYN+ACK = SYN and ACK alone,
\* ACK = ACK alone, FIN = FIN without SYN or RST (an ACK may ride along),
\* RST = RST set; PSH and URG never matter.
TcpTable ==
    { [from |-> {"Unknown", "Listen"}, on |-> "SYN",     dir |-> {FALSE},       to |-> "SynReceived"],
      [from |-> {"Unknown", "Listen"}, on |-> "SYN",     dir |-> {TRUE},        to |-> "SynSent"],
      [from |-> {"SynSent"},           on |-> "SYN+ACK", dir |-> {FALSE},       to |-> "Established"],
      [from |-> {"SynReceived"},       on |-> "ACK",     dir |-> {TRUE},        to |-> "Established"],
      [from |-> {"Unknown"},           on |-> "ACK",     dir |-> {TRUE, FALSE}, to |-> "Established"],
      [from |-> {"Established"},       on |-> "FIN",     dir |-> {TRUE},        to |-> "FinWait1"],
      [from |-> {"Established"},       on |-> "FIN",     dir |-> {FALSE},       to |-> "CloseWait"],
      [from |-> {"FinWait1"},          on |-> "ACK",     dir |-> {FALSE},       to |-> "FinWait2"],
      [from |-> {"FinWait1"},          on |-> "FIN",     dir |-> {FALSE},       to |-> "Closing"],
      [from |-> {"FinWait2"},          on |-> "FIN",     dir |-> {FALSE},       to |-> "TimeWait"],
      [from |-> {"CloseWait"},         on |-> "FIN",     dir |-> {TRUE},        to |-> "LastAck"],
      [from |-> {"LastAck"},           on |-> "ACK",     dir |-> {FALSE},       to |-> "Closed"],
      [from |-> {"Closing"},           on |-> "ACK",     dir |-> {FALSE},       to |-> "TimeWait"],
      [from |-> TcpState,              on |-> "RST",     dir |-> {TRUE, FALSE}, to |-> "Closed"] }

TableFlagsMatch(on, flags) ==
    CASE on = "SYN"     -> flags.syn /\ ~flags.ack /\ ~flags.fin /\ ~flags.rst
      [] on = "SYN+ACK" -> flags.syn /\ flags.ack /\ ~flags.fin /\ ~flags.rst
      [] on = "ACK"     -> ~flags.syn /\ flags.ack /\ ~flags.fin /\ ~flags.rst
      [] on = "FIN"     -> ~flags.syn /\ flags.fin /\ ~flags.rst
      [] on = "RST"     -> flags.rst

TableRows(from, flags, is_outgoing) ==
    { r \in TcpTable : /\ from \in r.from
                       /\ TableFlagsMatch(r.on, flags)
                       /\ is_outgoing \in r.dir }

\* C1: every application of update_tcp_state returns the target of the table
\* row that lists (current state, flags, direction), and returns the current
\* state unchanged when no row lists the input.
C1_MatchesTransitionTable ==
    tcp_last # NoCall =>
        LET rows == TableRows(tcp_last.from, tcp_last.flags, tcp_last.out) IN
        /\ \A r \in rows : tcp_last.to = r.to
        /\ rows = {} => tcp_last.to = tcp_last.from

\* A FIN+ACK from the peer in FinWait1 has been applied (a listed row), after
\* an unlisted input left an earlier state unchanged.
C1_Witness ==
    /\ tcp_last # NoCall
    /\ tcp_last.from = "FinWait1" /\ tcp_last.flags.fin /\ tcp_last.flags.ack
    /\ ~tcp_last.out /\ tcp_last.to = "Closing"

\* C2: whenever the RST flag is set, update_tcp_state returns Closed, for
\* every current state, direction and value of SYN, ACK and FIN.
C2_ResetAlwaysCloses ==
    (tcp_last # NoCall /\ tcp_last.flags.rst) => tcp_last.to = "Closed"

\* An inbound SYN+ACK that also carries RST reached a flow in SynSent, where
\* the handshake arm would otherwise have applied.
C2_Witness ==
    /\ tcp_last # NoCall
    /\ tcp_last.from = "SynSent" /\ ~tcp_last.out
    /\ tcp_last.flags.syn /\ tcp_last.flags.ack /\ tcp_last.flags.rst
    /\ tcp_last.to = "Closed"

ScriptDone == tcp_pos = Len(HandshakeCloseScript)

\* C3 as stated: after the seven scripted packets the flow has visited
\* SynSent, Established, FinWait1, FinWait2, TimeWait and Closed, in order.
C3_ScriptEndsClosed ==
    ScriptDone =>
        /\ tcp_visited = <<"SynSent", "Established", "FinWait1", "FinWait2",
                           "TimeWait", "Closed">>
        /\ tcp_state = "Closed"

\* The state the code is in after each prefix of the script.
ScriptStateAfter ==
    <<"SynSent", "Established", "Established", "FinWait1", "FinWait2",
      "TimeWait", "TimeWait">>

\* C3 (amended): following the script from Unknown the flow is in SynSent,
\* Established, Established, FinWait1, FinWait2, TimeWait after packets 1..6
\* and the final outbound ACK leaves it in TimeWait; the states entered are
\* SynSent, Established, FinWait1, FinWait2, TimeWait in that order.
C3_ScriptEndsTimeWait ==
    /\ (tcp_pos # OffScript /\ tcp_pos >= 1) => tcp_state = ScriptStateAfter[tcp_pos]
    /\ ScriptDone =>
          tcp_visited = <<"SynSent", "Established", "FinWait1", "FinWait2", "TimeWait">>

C3_Witness ==
    ScriptDone /\ tcp_last # NoCall /\ tcp_last.from = "TimeWait"

-----------------------------------------------------------------------------
(* Properties of the merge utilities.                                       *)

\* A step in which merge_packet_into_connection merged `parsed` into the
\* flow's Connection and returned.
PacketMerged(parsed) ==
    /\ conn # NoConn /\ ~panicked /\ ~panicked'
    /\ merge_last'.op = "merge_packet"
    /\ tally' = Count(tally, parsed)
    /\ conn' = merge_packet_into_connection(conn, parsed, clock)

CurrentTcpState(c) ==
    IF c.protocol_state.kind = "Tcp" THEN c.protocol_state.state ELSE "Unknown"

\* C4 as stated: after merging a packet that carries TCP flags, the
\* Connection's protocol_state is Tcp(update_tcp_state(previous state, flags,
\* direction)), whatever protocol_state the parser put in the packet.
C4_ComputedStateWins ==
    [][\A parsed \in ParsedPackets :
          (PacketMerged(parsed) /\ parsed.tcp_flags # None) =>
              conn'.protocol_state =
                  Tcp(update_tcp_state(CurrentTcpState(conn), parsed.tcp_flags[1],
                                       parsed.is_outgoing))]_vars

\* C5: for a flow made of packets only (created from its first packet, later
\* packets merged in), packets_sent and bytes_sent are the number and the total
\* length of the outgoing packets, packets_received and bytes_received those
\* of the incoming packets; and a merged packet leaves the two counters of
\* the other direction as they were.
C5_CountersMatchTraffic ==
    /\ [](conn # NoConn /\ tally.from_packet /\ ~tally.conn_merged =>
             /\ conn.packets_sent = tally.packets_out
             /\ conn.bytes_sent = tally.bytes_out
             /\ conn.packets_received = tally.packets_in
             /\ conn.bytes_received = tally.bytes_in)
    /\ [][\A parsed \in SizedPackets :
             PacketMerged(parsed) =>
                 IF parsed.is_outgoing
                 THEN /\ conn'.packets_received = conn.packets_received
                      /\ conn'.bytes_received = conn.bytes_received
                 ELSE /\ conn'.packets_sent = conn.packets_sent
                      /\ conn'.bytes_sent = conn.bytes_sent]_vars

\* The flow 60 out, 60 in, 52 out, 200 out: 3 packets / 312 bytes sent,
\* 1 packet / 60 bytes received.
C5_Witness ==
    /\ conn # NoConn /\ tally.from_packet /\ ~tally.conn_merged
    /\ merge_last.op = "merge_packet"
    /\ conn.packets_sent = 3 /\ conn.bytes_sent = 312
    /\ conn.packets_received = 1 /\ conn.bytes_received = 60

\* C7: last_activity is never earlier than created_at, after any sequence of
\* creation, packet merges and merge_connections under a clock that does not
\* go back; and creation from a packet sets both to the packet's time.
C7_ActivityNotBeforeCreation ==
    /\ [](conn # NoConn => conn.created_at <= conn.last_activity)
    /\ [][\A parsed \in ParsedPackets :
             CreateFromPacket(parsed) =>
                 conn'.created_at = clock /\ conn'.last_activity = clock]_vars

\* A flow created from a packet, merged with another source's Connection,
\* and last touched by a packet that arrived after its creation.
C7_Witness ==
    /\ conn # NoConn /\ tally.from_packet /\ tally.conn_merged
    /\ merge_last.op = "merge_packet"
    /\ conn.created_at < conn.last_activity

\* C8 as stated: no counter of the flow's Connection ever decreases across
\* merge_packet_into_connection or merge_connections.
C8_CountersNeverDecrease ==
    [][(conn # NoConn /\ conn' # NoConn) =>
          /\ conn'.packets_sent >= conn.packets_sent
          /\ conn'.bytes_sent >= conn.bytes_sent
          /\ conn'.packets_received >= conn.packets_received
          /\ conn'.bytes_received >= conn.bytes_received]_vars

\* C9 as stated: the counter additions saturate: merging a packet always
\* returns, with the direction's counters at min(old + increment, maximum).
C9_CountersSaturate ==
    [][\A parsed \in SizedPackets :
          MergePacket(parsed, MaxSized) =>
              /\ ~panicked'
              /\ IF parsed.is_outgoing
                 THEN /\ conn'.packets_sent = Min(conn.packets_sent + 1, U64_MAX)
                      /\ conn'.bytes_sent =
                             Min(conn.bytes_sent + parsed.packet_len, U64_MAX)
                 ELSE /\ conn'.packets_received =
                             Min(conn.packets_received + 1, U64_MAX)
                      /\ conn'.bytes_received =
                             Min(conn.bytes_received + parsed.packet_len, U64_MAX)]_vars

-----------------------------------------------------------------------------
(* Properties of the monitor.                                               *)

HasAPacket(c) == c.packets_sent + c.packets_received >= 1

NoTraffic(c) ==
    /\ c.packets_sent = 0 /\ c.packets_received = 0
    /\ c.bytes_sent = 0 /\ c.bytes_received = 0

-----------------------------------------------------------------------------
(* Properties of the CRYPTO frame reassembler.                              *)

\* C11: in every reachable state of the reassembler current_buffer_size is at
\* most max_buffer_size, and max_buffer_size is the cap set by new().
C11_BufferWithinLimit ==
    /\ reasm.max_buffer_size = MAX_BUFFER_SIZE
    /\ reasm.current_buffer_size <= reasm.max_buffer_size

\* The buffer is full, and an add_fragment has just been refused.
C11_Witness ==
    /\ reasm.current_buffer_size = MAX_BUFFER_SIZE
    /\ reasm.fragments # EmptyMap
    /\ reasm_last.result = "Err"

\* C12: contiguous_offset never decreases, whatever is called on the
\* reassembler: add_fragment (accepted, duplicate, overlapping or refused),
\* clear_fragments or set_complete_tls_info.
C12_ContiguousOffsetMonotone ==
    [][reasm'.contiguous_offset >= reasm.contiguous_offset]_vars

\* The offset has advanced, a fragment has been refused, the fragments have
\* been cleared and the TLS info has been set.
C12_Witness ==
    /\ reasm.contiguous_offset > 0
    /\ reasm.fragments = EmptyMap
    /\ reasm.has_complete_tls_info
    /\ reasm_last.result = "Err"

\* The stored fragments hold a byte for stream offset i.
covered(r, i) ==
    \E k \in DOMAIN r.fragments : k <= i /\ i < k + Len(r.fragments[k])

\* The byte stored for stream offset i.
stored_byte(r, i) ==
    LET k == CHOOSE k \in DOMAIN r.fragments : k <= i /\ i < k + Len(r.fragments[k])
    IN  r.fragments[k][i - k + 1]

\* The stored fragments cover [0, L).
covers_prefix(r, L) == \A i \in 0..(L - 1) : covered(r, i)

\* C13 (first half): whenever get_contiguous_data returns a value, the value
\* is exactly the bytes [0, contiguous_offset) of the stream.
C13_DataIsContiguousPrefix ==
    get_contiguous_data(reasm) # None =>
        LET data == get_contiguous_data(reasm)[1]
        IN  /\ Len(data) = reasm.contiguous_offset
            /\ \A i \in 0..(Len(data) - 1) :
                   covered(reasm, i) /\ data[i + 1] = stored_byte(reasm, i)

\* C13 (second half): contiguous_offset is the largest L such that the
\* stored fragments cover [0, L).
C13_OffsetIsCoveredPrefix ==
    /\ covers_prefix(reasm, reasm.contiguous_offset)
    /\ ~covered(reasm, reasm.contiguous_offset)

\* C13: both halves, in every reachable state.
C13_ContiguousData == C13_DataIsContiguousPrefix /\ C13_OffsetIsCoveredPrefix

\* A fragment with this offset and this length is stored.
is_stored(r, offset, data) ==
    offset \in DOMAIN r.fragments /\ Len(r.fragments[offset]) = Len(data)

\* C14: an add_fragment whose offset and length equal those of a stored
\* fragment returns success and leaves fragments, current_buffer_size and
\* contiguous_offset unchanged, for every fragment size up to the cap
\* (offsets whose end fits a u64).
C14_DuplicateIsNoOp ==
    [][\A offset \in 0..MaxOffset, data \in FragmentData :
          (is_stored(reasm, offset, data) /\ AddFragment(offset, data)) =>
              /\ reasm_last'.result = "Ok"
              /\ reasm'.fragments = reasm.fragments
              /\ reasm'.current_buffer_size = reasm.current_buffer_size
              /\ reasm'.contiguous_offset = reasm.contiguous_offset]_vars

\* C15: add_fragment returns the buffer-limit error exactly when
\* current_buffer_size + |data| > max_buffer_size, and on that error nothing
\* of the reassembler changes (fragments, current_buffer_size,
\* contiguous_offset, the cached TLS info), so a later fragment that fits is
\* not refused.
C15_BufferLimitError ==
    [][reasm_last'.adds # reasm_last.adds =>
          /\ reasm_last'.result = "Err" <=> reasm_last'.too_large
          /\ reasm_last'.result = "Err" => reasm' = reasm]_vars

\* A fragment has been refused while fragments and TLS info are held and
\* room is left for smaller fragments.
C15_Witness ==
    /\ reasm_last.result = "Err"
    /\ reasm.fragments # EmptyMap
    /\ reasm.has_complete_tls_info
    /\ reasm.current_buffer_size < reasm.max_buffer_size
    /\ reasm.current_buffer_size > 0

\* The byte range of a fragment at `offset` with data `data` intersects the
\* range of a stored fragment.
intersects_stored(r, offset, data) ==
    \E k \in DOMAIN r.fragments :
        \E i \in k..(k + Len(r.fragments[k]) - 1) :
            offset <= i /\ i < offset + Len(data)

\* No two stored fragments cover a common byte offset.
no_common_byte(r) ==
    \A k1, k2 \in DOMAIN r.fragments :
        k1 < k2 => k1 + Len(r.fragments[k1]) <= k2

\* C16: first write wins.  An add_fragment whose range intersects a stored
\* fragment returns success and changes neither the stored bytes nor
\* current_buffer_size; no two stored fragments cover a common byte offset;
\* and no add_fragment replaces the bytes of a stored fragment.
C16_FirstWriteWins ==
    /\ []no_common_byte(reasm)
    /\ [][\A offset \in 0..MaxOffset, data \in FragmentData :
              AddFragment(offset, data) =>
                  /\ \A k \in DOMAIN reasm.fragments :
                         reasm.fragments[k] # << >> =>
                             /\ k \in DOMAIN reasm'.fragments
                             /\ reasm'.fragments[k] = reasm.fragments[k]
                  /\ intersects_stored(reasm, offset, data) =>
                         /\ reasm_last'.result = "Ok"
                         /\ reasm'.fragments = reasm.fragments
                         /\ reasm'.current_buffer_size = reasm.current_buffer_size]_vars

\* C17: clear_fragments empties the fragment map and sets current_buffer_size
\* to 0 while has_complete_tls_info and cached_tls_info stay as they were, so
\* get_cached_tls_info returns the same before and after; and
\* get_cached_tls_info returns a value only once set_complete_tls_info has
\* been called.
C17_ClearKeepsTlsInfo ==
    /\ [](get_cached_tls_info(reasm) # None => reasm_last.tls_set)
    /\ [][ClearFragments =>
              /\ reasm'.fragments = EmptyMap
              /\ reasm'.current_buffer_size = 0
              /\ reasm'.has_complete_tls_info = reasm.has_complete_tls_info
              /\ reasm'.cached_tls_info = reasm.cached_tls_info
              /\ get_cached_tls_info(reasm') = get_cached_tls_info(reasm)]_vars

\* Fragments were stored and cleared, and the TLS info is still returned.
C17_Witness ==
    /\ reasm.fragments = EmptyMap
    /\ reasm.current_buffer_size = 0
    /\ reasm.contiguous_offset > 0
    /\ get_cached_tls_info(reasm) = Some("tls-a")

-----------------------------------------------------------------------------
(* Properties of the list returned by get_connections.                      *)

\* C18: the list returned by get_connections never holds two Connections
\* with the same protocol, local address and remote address.
C18_NoDuplicateFlows ==
    \A i, j \in DOMAIN returned :
        i < j => conn_key(returned[i].protocol, returned[i].local_addr,
                          returned[i].remote_addr)
                 # conn_key(returned[j].protocol, returned[j].local_addr,
                            returned[j].remote_addr)

-----------------------------------------------------------------------------
(* Properties of the App's connection list.                                 *)

\* The place of a flow in the order of first observation.
first_seen_at(seen, f) == CHOOSE i \in DOMAIN seen : seen[i] = f

\* The list follows the order of first observation.
in_first_seen_order(list, seen) ==
    \A i, j \in DOMAIN list :
        i < j => first_seen_at(seen, flow_of(list[i]))
                     < first_seen_at(seen, flow_of(list[j]))

\* One order index per flow identity, never changed once assigned.
index_per_flow(order) ==
    \A k1, k2 \in DOMAIN order :
        conn_key(k1[1], k1[2], k1[3]) = conn_key(k2[1], k2[2], k2[3])
            => order[k1] = order[k2]

\* on_tick or refresh has just run with a monitor in place.
ListUpdated == app_hist'.ticks # app_hist.ticks /\ app_state.network_monitor # None

\* C19: the list produced by on_tick/refresh presents the flows in the order
\* in which they were first observed, also when the state of a flow has
\* changed; a flow's order index is assigned once and never reassigned.
C19_StableOrder ==
    /\ []index_per_flow(app_state.connection_order)
    /\ [][ListUpdated =>
              /\ in_first_seen_order(app_state'.connections, app_hist'.first_seen)
              /\ \A k \in DOMAIN app_state.connection_order :
                     app_state'.connection_order[k] = app_state.connection_order[k]]_vars

\* C20: after on_tick or refresh, when the flow of the connection selected
\* before is still in the new list, selected_connection_idx is the index of
\* that flow in the new list, also when the state of the flow has changed.
C20_SelectionFollowsFlow ==
    [][(/\ ListUpdated
        /\ app_state.selected_connection # None
        /\ \E i \in DOMAIN app_state'.connections :
               flow_of(app_state'.connections[i])
                   = flow_of(app_state.selected_connection[1]))
       => /\ app_state'.selected_connection_idx + 1 \in DOMAIN app_state'.connections
          /\ flow_of(app_state'.connections[app_state'.selected_connection_idx + 1])
                 = flow_of(app_state.selected_connection[1])]_vars

-----------------------------------------------------------------------------
(* Properties of the fusion of packets and socket tables.                   *)

\* The connection was put in the list by a socket-table source.
from_snapshot(c) == c.origin \in {"ss", "netstat"}

\* The traffic counters of a connection.
counters_of(c) ==
    <<c.bytes_sent, c.bytes_received, c.packets_sent, c.packets_received>>

\* C21: for a flow that is in the packet-derived map with non-zero counters
\* and in the socket-table snapshot, the Connection returned by
\* get_connections carries the packet-derived counters (with the pid and
\* process name of the snapshot).
C21_CountersSurviveFusion ==
    ~monitor_panicked =>
        \A i \in DOMAIN returned :
            LET k == conn_key(returned[i].protocol, returned[i].local_addr,
                              returned[i].remote_addr)
            IN  (/\ from_snapshot(returned[i])
                 /\ k \in DOMAIN connections
                 /\ counters_of(connections[k]) # <<0, 0, 0, 0>>)
                => /\ counters_of(returned[i]) = counters_of(connections[k])
                   /\ returned[i].pid # None

\* C22: a TCP flow whose packet-derived state is Established is returned by
\* get_connections with state Established also when the socket table reports
\* it with an unknown state: the snapshot does not downgrade it to Unknown.
C22_EstablishedNotDowngraded ==
    ~monitor_panicked =>
        \A i \in DOMAIN returned :
            LET k == conn_key(returned[i].protocol, returned[i].local_addr,
                              returned[i].remote_addr)
            IN  (/\ returned[i].protocol = "TCP"
                 /\ k \in DOMAIN connections
                 /\ connections[k].state = "Established")
                => returned[i].state = "Established"

\* The flow is not listed by the socket tables of the last call.
absent_from_snapshot(k, list) ==
    ~\E i \in DOMAIN list :
        /\ from_snapshot(list[i])
        /\ conn_key(list[i].protocol, list[i].local_addr, list[i].remote_addr) = k

\* The entry is due for removal: absent from the snapshot, and closed or idle
\* for at least 300 s.
due_for_removal(k, c, list, now) ==
    /\ absent_from_snapshot(k, list)
    /\ c.state \in {"Reset", "Closed"} \/ idle_time(c, now) >= 300000

\* C23: after each get_connections, an entry is gone from the flow map if and
\* only if it is absent from the snapshot and (closed/reset or idle for at
\* least 300 s): no entry that is due stays, and no entry that is not due
\* is removed.
C23_Retention ==
    [][(budget'.calls # budget.calls /\ ~monitor_panicked') =>
          /\ \A k \in DOMAIN connections' :
                 ~due_for_removal(k, connections'[k], returned', now_ms')
          /\ \A k \in DOMAIN connections :
                 k \notin DOMAIN connections' =>
                     due_for_removal(k, connections[k], returned', now_ms')]_vars


\* C24: no captured frame is fatal: whatever the frame's IHL nibble,
\* process_packets completes and get_connections returns, so the monitor's
\* mutex is never poisoned and the next on_tick can acquire it.
C24_NoFrameIsFatal == ~monitor_panicked


\* C26: every Connection get_connections returns corresponds to a socket the
\* OS reported or to a captured packet; when every socket-table source fails
\* or yields nothing and no packet was captured, nothing is returned.
C26_NoFabricatedConnections ==
    \A i \in DOMAIN returned : returned[i].origin \in {"ss", "netstat", "packet"}


\* C25: a frame shorter than 42 bytes, or whose IP version is not 4, leaves
\* the flow map completely unchanged: a call of get_connections that consumes
\* only such frames neither creates nor updates an entry.
C25_ShortFramesIgnored ==
    [][(/\ budget'.calls # budget.calls
        /\ \A i \in 1..(Len(capture) - Len(capture')) :
               capture[i].len < 42 \/ capture[i].version # 4)
       => connections' = connections]_vars

\* C28: the two directions of a flow resolve to the same entry: the flow map
\* never holds two entries of the same protocol of which one's local and
\* remote addresses are the other's remote and local addresses.
C28_DirectionsShareEntry ==
    \A k1, k2 \in DOMAIN connections :
        (k1[1] = k2[1] /\ k1[2] = k2[3] /\ k1[3] = k2[2]) => k1 = k2


\* The entries of the platform list that the given source pushed.
pushed_by(list, origin) == { i \in DOMAIN list : list[i].origin = origin }

C29_MutualExclusion ==
    /\ ~(bg_pc = "get_connections" /\ ui_pc = "get_connections")
    /\ (monitor_mutex.holder = "background") <=> (bg_pc \in {"get_connections", "publish"})
    /\ (monitor_mutex.holder = "consumer") <=> (ui_pc = "get_connections")

\* The background thread is inside get_connections while the consumer waits in
\* on_tick for the lock, after the consumer has polled the monitor itself.
C29_Witness ==
    /\ bg_pc = "get_connections"
    /\ monitor_mutex.holder = "background"
    /\ ui_pc = "lock"
    /\ consumer_connections > 1

\* C30: once the consumer has quit, the background thread eventually observes
\* it and leaves its loop, which releases the monitor and its capture handle.
C30_StopIsObserved ==
    (ui_pc = "quit") ~> (bg_pc \notin {"lock", "get_connections", "publish", "sleep"})


\* The TcpFlags of the flags byte of a TCP header.
flags_of(byte) ==
    [syn |-> (byte \div 2) % 2 = 1, ack |-> (byte \div 16) % 2 = 1,
     fin |-> byte % 2 = 1, rst |-> (byte \div 4) % 2 = 1,
     psh |-> (byte \div 8) % 2 = 1, urg |-> (byte \div 32) % 2 = 1]

\* The state the engine reaches from `state` over the TCP frames of flow k
\* among `frames`, in order.
RECURSIVE engine_fold(_, _, _)
engine_fold(state, frames, k) ==
    IF frames = << >>
    THEN state
    ELSE LET data == Head(frames)
             mine == frame_accepted(data) /\ data.protocol = 6 /\ frame_key(data) = k
         IN  engine_fold(IF mine
                         THEN update_tcp_state(state, flags_of(data.flags),
                                               is_outgoing_ip(data.src_ip))
                         ELSE state,
                         Tail(frames), k)

\* C31: the state process_packets records for a TCP flow equals the state
\* obtained by folding the flow's packets through update_tcp_state from
\* Unknown: for a flow first seen in a call of get_connections, the recorded
\* state is the fold of the frames that call consumed.
C31_LiveStateIsEngineFold ==
    [][(budget'.calls # budget.calls /\ ~monitor_panicked') =>
          \A k \in DOMAIN connections' \ DOMAIN connections :
              k[1] = "TCP" =>
                  connections'[k].state =
                      engine_fold("Unknown",
                                  SubSeq(capture, 1, Len(capture) - Len(capture')), k)]_vars


\* C32: update_tcp_state is total and depends only on the current state, SYN,
\* ACK, FIN, RST and the direction: every application returns a TcpState, the
\* same one for every value of PSH and URG, and leaves the Connection alone.
C32_TotalAndIgnoresPshUrg ==
    tcp_last # NoCall =>
        /\ tcp_last.to \in TcpState
        /\ \A psh, urg \in BOOLEAN :
               update_tcp_state(tcp_last.from,
                                [tcp_last.flags EXCEPT !.psh = psh, !.urg = urg],
                                tcp_last.out) = tcp_last.to
        /\ conn = NoConn

\* A segment carrying PSH and URG with RST has closed an established flow.
C32_Witness ==
    /\ tcp_last # NoCall
    /\ tcp_last.flags.psh /\ tcp_last.flags.urg /\ tcp_last.flags.rst
    /\ tcp_last.from = "Established" /\ tcp_last.to = "Closed"


\* C33: applying the same flags and direction a second time to the state
\* reached from Unknown returns that state again:
\* update_tcp_state(update_tcp_state(Unknown, f, d), f, d) =
\* update_tcp_state(Unknown, f, d).
C33_TwiceFromUnknown ==
    (tcp_last # NoCall /\ tcp_last.from = "Unknown") =>
        update_tcp_state(tcp_last.to, tcp_last.flags, tcp_last.out) = tcp_last.to

\* A lone ACK has taken a flow from Unknown to Established.
C33_Witness ==
    /\ tcp_last # NoCall
    /\ tcp_last.from = "Unknown" /\ tcp_last.to = "Established"
    /\ tcp_last.flags = Flags(FALSE, TRUE, FALSE, FALSE)

\* C38: Closed is absorbing, and no input moves a state other than Unknown
\* or Listen to Unknown or Listen.
C38_ClosedAbsorbing ==
    tcp_last # NoCall =>
        /\ tcp_last.from = "Closed" => tcp_last.to = "Closed"
        /\ (tcp_last.from \notin {"Unknown", "Listen"})
               => tcp_last.to \notin {"Unknown", "Listen"}

\* A SYN arrived at a closed flow, which stayed closed.
C38_Witness ==
    /\ tcp_last # NoCall
    /\ tcp_last.from = "Closed" /\ tcp_last.to = "Closed"
    /\ tcp_last.flags.syn /\ ~tcp_last.flags.rst


\* C34: packet ingestion is bounded.  A call of get_connections less than
\* 100 ms after the previous drain reads no frame, changes no entry and does
\* not move the time of the last drain; a drain reads at most one batch of
\* frames (POLL_BATCH, the source's 100);
\* and a drain that a read error cuts short ends without an error, the
\* frames not read staying in the capture for the next eligible call.
C34_IngestionBounded ==
    [][(budget'.calls # budget.calls) =>
          LET read == Len(capture) - Len(capture') IN
          /\ (now_ms - last_packet_check < 100) =>
                 /\ read = 0 /\ connections' = connections
                 /\ last_packet_check' = last_packet_check
          /\ read <= POLL_BATCH
          /\ capture' = SubSeq(capture, read + 1, Len(capture))
          /\ ~monitor_panicked']_vars

\* A burst of one datagram more than a batch has been counted whole, which
\* takes two drains: the first read its batch, the second the one left over.
C34_Witness ==
    /\ budget.calls = 2 /\ budget.frames = 1 /\ capture = << >>
    /\ \E k \in DOMAIN connections : connections[k].packets_sent = POLL_BATCH + 1


\* The address as a number, and the four private prefixes as number ranges.
ip_number(ip) == ((ip[1] * 256 + ip[2]) * 256 + ip[3])

in_private_prefix(ip) ==
    LET n == ip_number(ip) IN
    \/ n \in ip_number(<<10, 0, 0>>)..ip_number(<<10, 255, 255>>)
    \/ n \in ip_number(<<172, 16, 0>>)..ip_number(<<172, 31, 255>>)
    \/ n \in ip_number(<<192, 168, 0>>)..ip_number(<<192, 168, 255>>)
    \/ n \in ip_number(<<127, 0, 0>>)..ip_number(<<127, 255, 255>>)

\* C35: a packet is outgoing iff its source is in 10.0.0.0/8, 172.16.0.0/12,
\* 192.168.0.0/16 or 127.0.0.0/8; the entry of an outgoing packet has the
\* source as its local and the destination as its remote address, the entry of
\* any other packet the destination as local and the source as remote.
C35_DirectionPolicy ==
    [][(budget'.calls # budget.calls /\ ~monitor_panicked') =>
          \A i \in 1..(Len(capture) - Len(capture')) :
              LET data == capture[i]
                  src == SocketAddr(data.src_ip, data.src_port)
                  dst == SocketAddr(data.dst_ip, data.dst_port)
                  out == in_private_prefix(data.src_ip)
              IN  \E k \in DOMAIN connections' :
                      /\ connections'[k].local_addr = (IF out THEN src ELSE dst)
                      /\ connections'[k].remote_addr = (IF out THEN dst ELSE src)
                      /\ connections'[k].protocol = (IF data.protocol = 6 THEN "TCP" ELSE "UDP")
                      /\ k = conn_key(connections'[k].protocol, connections'[k].local_addr,
                                      connections'[k].remote_addr)]_vars

\* A datagram from 172.31.255.255 was taken as outgoing and one from
\* 172.32.0.0 as incoming.
C35_Witness ==
    /\ \E k \in DOMAIN connections :
           connections[k].local_addr.ip = <<172, 31, 255, 255>>
    /\ \E k \in DOMAIN connections :
           connections[k].remote_addr.ip = <<172, 32, 0, 0>>


\* C36: merge_connections takes pid and process_name from the secondary only
\* when the primary has no pid, sets each counter to the larger of the two,
\* created_at to the earlier and last_activity to the later of the two, and
\* merging the same secondary again changes nothing.
C36_MergeConnections ==
    [][(merge_last'.op = "merge_connections" /\ clock' = clock) =>
          \E s \in ValidSecondaries :
              /\ conn'.pid = (IF conn.pid # None THEN conn.pid ELSE s.pid)
              /\ conn'.process_name =
                     (IF conn.pid # None THEN conn.process_name ELSE s.process_name)
              /\ conn'.bytes_sent = Max(conn.bytes_sent, s.bytes_sent)
              /\ conn'.bytes_received = Max(conn.bytes_received, s.bytes_received)
              /\ conn'.packets_sent = Max(conn.packets_sent, s.packets_sent)
              /\ conn'.packets_received = Max(conn.packets_received, s.packets_received)
              /\ conn'.created_at = Min(conn.created_at, s.created_at)
              /\ conn'.last_activity = Max(conn.last_activity, s.last_activity)
              /\ merge_connections(conn', s) = conn']_vars

\* The flow has the pid of the first secondary merged in, after the secondary
\* of another process (the one with a DPI classification) was merged too.
C36_Witness ==
    /\ conn # NoConn
    /\ merge_last.op = "merge_connections" /\ merge_last.dpi
    /\ conn.pid = Some(5678) /\ conn.process_name = Some("chrome")
    /\ conn.bytes_sent >= 2000


\* The sum of the lengths of the stored fragments.
RECURSIVE stored_length(_, _)
stored_length(fragments, keys) ==
    IF keys = {}
    THEN 0
    ELSE LET k == CHOOSE x \in keys : TRUE
         IN  Len(fragments[k]) + stored_length(fragments, keys \ {k})

\* C37: in every reachable state of the reassembler current_buffer_size is
\* the sum of the lengths of the fragments currently stored.
C37_BufferSizeIsStoredSum ==
    ~reasm_panicked =>
        reasm.current_buffer_size = stored_length(reasm.fragments, DOMAIN reasm.fragments)


C40_LockIsAcquired ==
    (ui_pc = "lock") ~> (ui_pc = "get_connections")

=============================================================================
